---- MODULE Spec2Model ----
(***************************************************************************)
(* State-machine model of the hot-crypto-trader decision/execution core:   *)
(* CircuitBreaker (core/circuit_breaker.py), RiskManager                   *)
(* (core/risk_manager.py), Portfolio (core/portfolio.py) and the Executor   *)
(* order state machine (core/execution.py) with the exchange boundary      *)
(* (core/exchange_client.py).                                              *)
(*                                                                         *)
(* Units.  Time is counted in minutes since the epoch of the run (the       *)
(* code mixes time.time() seconds and datetime; every window it uses is a   *)
(* whole number of minutes).  Money is counted in cents, quantities in      *)
(* thousandths of a unit (0.001 = 1), percentages in whole percent or basis *)
(* points.  Float division is integer division on these scaled values.      *)
(***************************************************************************)
EXTENDS Integers, Sequences, FiniteSets, TLC

VARIABLES
    now,        \* wall clock (datetime.now / time.time), minutes
    cb,         \* CircuitBreaker instance attributes
    cbLast,     \* outcome of the last CircuitBreaker call (return value)
    tripLog,    \* every BreakerTrip ever appended to cb.trips
    calls,      \* number of public calls made so far (bounds the run)
    executor,   \* Executor configuration: mode and attached collaborators
    orders,     \* Executor.orders: client_order_id -> ManagedOrder
    portfolio,  \* the Portfolio attached to the Executor
    rm,         \* the RiskManager attached to the Executor
    exchange,   \* the exchange behind ExchangeClient: its order book
    last,       \* what the last Executor call was and what it returned
    execOpen,   \* symbols with a position opened through the Executor, not yet closed
    limiter,    \* one RateLimiter and the threads that call its acquire
    ensemble    \* one Ensemble and the signals of the cycle under way

cbVars == <<cb, cbLast, tripLog>>
exVars == <<executor, orders, portfolio, rm, exchange, last, execOpen>>
vars == <<now, cb, cbLast, tripLog, calls, executor, orders, portfolio, rm,
          exchange, last, execOpen, limiter, ensemble>>

(***************************************************************************)
(* Bounds of the model                                                     *)
(***************************************************************************)
MaxNow == 60
MaxCalls == 3

\* Optional[...] = None
NoVal == -999999
ALL == "ALL"

Symbols == {"BTC/USDT", "ETH/USDT"}

\* how far the clock moves between two calls
TickSteps == {30, 60}

\* no CircuitBreaker call made yet
NoCall == [op |-> "none", symbol |-> ALL, price |-> 0, allowed |-> TRUE,
           why |-> "none", drop |-> FALSE, kill |-> FALSE, early |-> FALSE, at |-> 0,
           streak |-> 0]

RECURSIVE SeqMax(_)
SeqMax(s) == IF Len(s) = 1 THEN s[1]
             ELSE LET m == SeqMax(Tail(s)) IN IF s[1] >= m THEN s[1] ELSE m

Abs(x) == IF x < 0 THEN -x ELSE x

\* the threads that share one RateLimiter, and the limiter's parameters
Threads == {1, 2}
WindowTicks == 2
MaxWeight == 3
MaxAcquires == 2
SafetyMarginPct == 90

\* RateLimiter.__init__: max_requests = int(max_requests * safety_margin)
RateLimiterInit(max_requests, safety_margin_pct, window) ==
    [ max_requests |-> (max_requests * safety_margin_pct) \div 100,
      window |-> window,
      timestamps |-> <<>>,
      lock |-> 0,
      pc |-> [t \in Threads |-> "idle"],
      left |-> [t \in Threads |-> 0],
      made |-> [t \in Threads |-> 0],
      weight |-> [t \in Threads |-> 0],
      recent |-> <<>> ]

\* Ensemble(consensus_threshold, min_weighted_confidence) with the default
\* affinity map; min_weighted_confidence in thousandths.  signals is the
\* mapping strategy name -> signal its caller is filling for this cycle:
\* <<name, action, confidence in percent>> in insertion order
EnsembleInit(consensus_threshold, min_weighted_confidence) ==
    [consensus_threshold |-> consensus_threshold,
     min_weighted_confidence |-> min_weighted_confidence,
     signals |-> <<>>]

\* the ensemble of a run that never aggregates
NoEnsemble == EnsembleInit(0, 0)

\* the limiter of a run that never calls acquire
NoLimiter == RateLimiterInit(0, SafetyMarginPct, 0)

(***************************************************************************)
(* CircuitBreaker                                                          *)
(***************************************************************************)
AssetTripMinutes == 60
FlashTripMinutes == 15
PortfolioTripMinutes == 1440
PriceRetentionMinutes == 120

\* CircuitBreaker.__init__ with its default arguments
CircuitBreakerInit ==
    [ asset_drop_pct |-> 15,
      asset_window |-> 60,
      portfolio_kill_pct |-> 10,
      consecutive_loss_limit |-> 3,
      consecutive_cooldown_minutes |-> 30,
      flash_crash_pct |-> 5,
      flash_crash_window |-> 1,
      price_history |-> [s \in Symbols |-> <<>>],
      consecutive_losses |-> 0,
      trips |-> <<>>,
      sod_portfolio_value |-> NoVal ]

\* BreakerTrip.is_active at time t
IsActive(trip, t) == t < trip.expires_at

\* CircuitBreaker.record_price
RecordPrice(c, symbol, price, t) ==
    LET appended == Append(c.price_history[symbol], <<t, price>>)
        cutoff == t - PriceRetentionMinutes
        pruned == SelectSeq(appended, LAMBDA e : e[1] > cutoff)
    IN [c EXCEPT !.price_history[symbol] = pruned]

\* the prices of a history recorded after cutoff, in order
PricesAfter(history, cutoff) ==
    LET kept == SelectSeq(history, LAMBDA e : e[1] > cutoff)
    IN [i \in 1..Len(kept) |-> kept[i][2]]

MkTrip(type, symbol, t, minutes) ==
    [ breaker_type |-> type, symbol |-> symbol,
      triggered_at |-> t, expires_at |-> t + minutes ]

\* a mis-built asset trip: expires with the flash duration
TripAssetShort(c, symbol, t) ==
    [c EXCEPT !.trips = Append(@, MkTrip("asset", symbol, t, FlashTripMinutes))]

\* CircuitBreaker._trip_asset
TripAsset(c, symbol, t) ==
    [c EXCEPT !.trips = Append(@, MkTrip("asset", symbol, t, AssetTripMinutes))]

\* CircuitBreaker._trip_flash
TripFlash(c, symbol, t) ==
    [c EXCEPT !.trips = Append(@, MkTrip("flash", symbol, t, FlashTripMinutes))]

\* CircuitBreaker._trip_portfolio
TripPortfolio(c, t) ==
    [c EXCEPT !.trips = Append(@, MkTrip("portfolio", ALL, t, PortfolioTripMinutes))]

\* CircuitBreaker._trip_consecutive
TripConsecutive(c, t) ==
    [c EXCEPT !.trips = Append(@, MkTrip("consecutive", ALL, t,
                                         c.consecutive_cooldown_minutes))]

\* the drop test of _check_asset_drop: (window_high - current) / window_high
\* >= asset_drop_pct over the prices of the asset window
AssetDropHit(c, symbol, price, t) ==
    LET window_prices == PricesAfter(c.price_history[symbol], t - c.asset_window)
    IN /\ Len(window_prices) > 0
       /\ SeqMax(window_prices) > 0
       /\ (SeqMax(window_prices) - price) * 100
              >= c.asset_drop_pct * SeqMax(window_prices)

\* CircuitBreaker._check_asset_drop: <<ok, breaker>>
CheckAssetDrop(c, symbol, price, t) ==
    IF AssetDropHit(c, symbol, price, t)
    THEN [ok |-> FALSE, cb |-> TripAsset(c, symbol, t)]
    ELSE [ok |-> TRUE, cb |-> c]

\* CircuitBreaker._check_flash_crash
CheckFlashCrash(c, symbol, price, t) ==
    LET history == c.price_history[symbol]
        recent == PricesAfter(history, t - c.flash_crash_window)
    IN IF Len(history) < 2 \/ Len(recent) < 2 THEN [ok |-> TRUE, cb |-> c]
       ELSE IF recent[1] <= 0 THEN [ok |-> TRUE, cb |-> c]
       ELSE IF Abs(price - recent[1]) * 100 >= c.flash_crash_pct * recent[1]
            THEN [ok |-> FALSE, cb |-> TripFlash(c, symbol, t)]
            ELSE [ok |-> TRUE, cb |-> c]

\* the drawdown test of _check_portfolio_kill: (sod - current) / sod >=
\* portfolio_kill_pct
KillHit(c, current_value, sod_value) ==
    /\ sod_value > 0
    /\ (sod_value - current_value) * 100 >= c.portfolio_kill_pct * sod_value

\* a kill switch that needs the drawdown to exceed the limit
CheckPortfolioKillStrict(c, current_value, sod_value, t) ==
    IF sod_value <= 0 THEN [ok |-> TRUE, cb |-> c]
    ELSE IF (sod_value - current_value) * 100 > c.portfolio_kill_pct * sod_value
         THEN [ok |-> FALSE, cb |-> TripPortfolio(c, t)]
         ELSE [ok |-> TRUE, cb |-> c]

\* CircuitBreaker._check_portfolio_kill
CheckPortfolioKill(c, current_value, sod_value, t) ==
    IF sod_value <= 0 THEN [ok |-> TRUE, cb |-> c]
    ELSE IF (sod_value - current_value) * 100 >= c.portfolio_kill_pct * sod_value
         THEN [ok |-> FALSE, cb |-> TripPortfolio(c, t)]
         ELSE [ok |-> TRUE, cb |-> c]

\* a first loop that stops at any active trip, whatever its symbol
BlockedByAnyTrip(c, symbol, t) ==
    \E i \in 1..Len(c.trips) : IsActive(c.trips[i], t)

\* the first loop of check(): some active trip is portfolio-wide or on symbol
BlockedByTrip(c, symbol, t) ==
    \E i \in 1..Len(c.trips) :
        /\ IsActive(c.trips[i], t)
        /\ (c.trips[i].symbol = ALL \/ c.trips[i].symbol = symbol)

\* the start-of-day value check() uses: initial_value or _sod_portfolio_value
SodOf(c, initial_value) ==
    IF initial_value # NoVal /\ initial_value # 0
    THEN initial_value ELSE c.sod_portfolio_value

\* check() returns before it reaches the kill switch: an active trip, the
\* asset drop or the flash crash refuses first
RefusedEarly(c, symbol, price, t) ==
    LET c1 == RecordPrice(c, symbol, price, t)
    IN \/ BlockedByTrip(c1, symbol, t)
       \/ ~CheckAssetDrop(c1, symbol, price, t).ok
       \/ ~CheckFlashCrash(c1, symbol, price, t).ok

\* a check() that runs the three tests one after the other instead of
\* returning at the first refusal
CheckRunsEveryTest(c, symbol, price, portfolio_value, initial_value, t) ==
    LET c1 == RecordPrice(c, symbol, price, t)
        a == CheckAssetDrop(c1, symbol, price, t)
        f == CheckFlashCrash(a.cb, symbol, price, t)
        sod == SodOf(c1, initial_value)
        tested == sod # NoVal /\ sod # 0 /\ portfolio_value # NoVal
        p == CheckPortfolioKill(f.cb, portfolio_value, sod, t)
    IN IF BlockedByTrip(c1, symbol, t)
       THEN [allowed |-> FALSE, why |-> "active", cb |-> c1]
       ELSE IF ~a.ok \/ ~f.ok \/ (tested /\ ~p.ok)
       THEN [allowed |-> FALSE,
             why |-> IF ~a.ok THEN "asset" ELSE IF ~f.ok THEN "flash" ELSE "portfolio",
             cb |-> IF tested THEN p.cb ELSE f.cb]
       ELSE [allowed |-> TRUE, why |-> "ok", cb |-> c1]

\* CircuitBreaker.check: [allowed, why, cb]
Check(c, symbol, price, portfolio_value, initial_value, t) ==
    LET c1 == RecordPrice(c, symbol, price, t)
        a == CheckAssetDrop(c1, symbol, price, t)
        f == CheckFlashCrash(c1, symbol, price, t)
        sod == SodOf(c1, initial_value)
        p == CheckPortfolioKill(c1, portfolio_value, sod, t)
    IN IF BlockedByTrip(c1, symbol, t)
       THEN [allowed |-> FALSE, why |-> "active", cb |-> c1]
       ELSE IF ~a.ok THEN [allowed |-> FALSE, why |-> "asset", cb |-> a.cb]
       ELSE IF ~f.ok THEN [allowed |-> FALSE, why |-> "flash", cb |-> f.cb]
       ELSE IF sod # NoVal /\ sod # 0 /\ portfolio_value # NoVal /\ ~p.ok
            THEN [allowed |-> FALSE, why |-> "portfolio", cb |-> p.cb]
       ELSE [allowed |-> TRUE, why |-> "ok", cb |-> c1]

\* a counter that takes a break-even trade for a loss
RegisterTradeResultZeroIsLoss(c, pnl, t) ==
    IF pnl <= 0
    THEN LET c1 == [c EXCEPT !.consecutive_losses = @ + 1]
         IN IF c1.consecutive_losses >= c1.consecutive_loss_limit
            THEN TripConsecutive(c1, t) ELSE c1
    ELSE [c EXCEPT !.consecutive_losses = 0]

\* CircuitBreaker.register_trade_result
RegisterTradeResult(c, pnl, t) ==
    IF pnl < 0
    THEN LET c1 == [c EXCEPT !.consecutive_losses = @ + 1]
         IN IF c1.consecutive_losses >= c1.consecutive_loss_limit
            THEN TripConsecutive(c1, t) ELSE c1
    ELSE [c EXCEPT !.consecutive_losses = 0]

\* a daily reset that clears the whole trip list
ResetDailyClearsTrips(c, portfolio_value, t) ==
    [c EXCEPT !.sod_portfolio_value = portfolio_value,
              !.trips = <<>>]

\* CircuitBreaker.reset_daily
ResetDaily(c, portfolio_value, t) ==
    [c EXCEPT !.sod_portfolio_value = portfolio_value,
              !.trips = SelectSeq(@, LAMBDA trip : IsActive(trip, t))]

\* the trips of new that old does not have yet (trips are only appended)
NewTrips(old, new) ==
    {new.trips[i] : i \in (Len(old.trips) + 1)..Len(new.trips)}

(***************************************************************************)
(* Portfolio (paper ledger).  cash and prices in cents, sizes in 0.001.    *)
(* stop / tp / entry_time of a Position are stored and never read by the    *)
(* operations below; they are left out of the record.                      *)
(***************************************************************************)
NoPos == [id |-> 0, side |-> "NONE", size |-> 0, entry_price |-> 0, strategy |-> "none"]

\* Portfolio.__init__ with its default arguments
PortfolioInit ==
    [ cash |-> 1000000,
      commission_e4 |-> 5,
      slippage_bps |-> 2,
      positions |-> [s \in Symbols |-> NoPos],
      next_position_id |-> 1,
      trade_history |-> <<>> ]

HasPosition(p, symbol) == p.positions[symbol] # NoPos

\* Portfolio._apply_slippage
ApplySlippage(p, price, side) ==
    IF side = "BUY" THEN (price * (10000 + p.slippage_bps)) \div 10000
    ELSE (price * (10000 - p.slippage_bps)) \div 10000

\* Portfolio._calculate_fees
CalculateFees(p, notional) == (notional * p.commission_e4) \div 10000

\* size (0.001 units) times price (cents), in cents
Notional(size, price) == (size * price) \div 1000

\* Portfolio.get_equity({symbol: price}): the other positions are marked at
\* their entry price and contribute nothing
GetEquity(p, symbol, price) ==
    LET pos == p.positions[symbol]
    IN IF pos = NoPos THEN p.cash
       ELSE IF pos.side = "LONG"
            THEN p.cash + Notional(pos.size, price - pos.entry_price)
            ELSE p.cash + Notional(pos.size, pos.entry_price - price)

\* open_long without the test for an existing position
OpenLongOverwrites(p, symbol, size, price, strategy) ==
    LET fill_price == ApplySlippage(p, price, "BUY")
        notional == Notional(size, fill_price)
        fees == CalculateFees(p, notional)
        total_cost == notional + fees
    IN IF total_cost > p.cash
       THEN [ok |-> FALSE, p |-> p, fill_price |-> 0, fees |-> 0]
       ELSE [ok |-> TRUE,
             p |-> [p EXCEPT !.cash = @ - total_cost,
                             !.next_position_id = @ + 1,
                             !.positions[symbol] =
                                 [id |-> p.next_position_id, side |-> "LONG",
                                  size |-> size, entry_price |-> fill_price,
                                  strategy |-> strategy]],
             fill_price |-> fill_price, fees |-> fees]

\* Portfolio.open_long: ok = FALSE stands for the ValueError
OpenLong(p, symbol, size, price, strategy) ==
    LET fill_price == ApplySlippage(p, price, "BUY")
        notional == Notional(size, fill_price)
        fees == CalculateFees(p, notional)
        total_cost == notional + fees
    IN IF HasPosition(p, symbol) \/ total_cost > p.cash
       THEN [ok |-> FALSE, p |-> p, fill_price |-> 0, fees |-> 0]
       ELSE [ok |-> TRUE,
             p |-> [p EXCEPT !.cash = @ - total_cost,
                             !.next_position_id = @ + 1,
                             !.positions[symbol] =
                                 [id |-> p.next_position_id, side |-> "LONG",
                                  size |-> size, entry_price |-> fill_price,
                                  strategy |-> strategy]],
             fill_price |-> fill_price, fees |-> fees]

\* Portfolio.open_short
OpenShort(p, symbol, size, price, strategy) ==
    LET fill_price == ApplySlippage(p, price, "SELL")
        notional == Notional(size, fill_price)
        fees == CalculateFees(p, notional)
    IN IF HasPosition(p, symbol)
       THEN [ok |-> FALSE, p |-> p, fill_price |-> 0, fees |-> 0]
       ELSE [ok |-> TRUE,
             p |-> [p EXCEPT !.cash = @ - fees,
                             !.next_position_id = @ + 1,
                             !.positions[symbol] =
                                 [id |-> p.next_position_id, side |-> "SHORT",
                                  size |-> size, entry_price |-> fill_price,
                                  strategy |-> strategy]],
             fill_price |-> fill_price, fees |-> fees]

\* Portfolio.close_long
CloseLong(p, symbol, price) ==
    LET pos == p.positions[symbol]
        fill_price == ApplySlippage(p, price, "SELL")
        notional == Notional(pos.size, fill_price)
        fees == CalculateFees(p, notional)
        proceeds == notional - fees
        pnl == proceeds - Notional(pos.size, pos.entry_price)
    IN IF pos = NoPos \/ pos.side # "LONG"
       THEN [ok |-> FALSE, p |-> p, fill_price |-> 0, pnl |-> 0, fees |-> 0]
       ELSE [ok |-> TRUE,
             p |-> [p EXCEPT !.cash = @ + proceeds,
                             !.trade_history = Append(@, pnl),
                             !.positions[symbol] = NoPos],
             fill_price |-> fill_price, pnl |-> pnl, fees |-> fees]

\* Portfolio.close_short
CloseShort(p, symbol, price) ==
    LET pos == p.positions[symbol]
        fill_price == ApplySlippage(p, price, "BUY")
        notional == Notional(pos.size, fill_price)
        fees == CalculateFees(p, notional)
        pnl == Notional(pos.size, pos.entry_price) - (notional + fees)
    IN IF pos = NoPos \/ pos.side # "SHORT"
       THEN [ok |-> FALSE, p |-> p, fill_price |-> 0, pnl |-> 0, fees |-> 0]
       ELSE [ok |-> TRUE,
             p |-> [p EXCEPT !.cash = @ + pnl,
                             !.trade_history = Append(@, pnl),
                             !.positions[symbol] = NoPos],
             fill_price |-> fill_price, pnl |-> pnl, fees |-> fees]

(***************************************************************************)
(* RiskManager.  Equity and pnl in cents; risk_per_trade in basis points,    *)
(* the Kelly fraction in parts per million.                                 *)
(***************************************************************************)
MinutesPerDay == 1440
KellyMinTrades == 10
MaxPositionPct == 50
AtrStopMultNum == 3
AtrStopMultDen == 2

\* RiskManager.__init__ with its default arguments
RiskManagerInit ==
    [ initial_equity |-> 1000000,
      risk_per_trade_bps |-> 50,
      max_open_positions |-> 2,
      max_daily_loss_pct |-> 2,
      max_total_drawdown_pct |-> 10,
      cooldown_minutes |-> 240,
      min_atr_e3 |-> 3,
      spread_guard_bps |-> 10,
      kelly_lookback |-> 50,
      kelly_fraction_pct |-> 50,
      current_equity |-> 1000000,
      peak_equity |-> 1000000,
      daily_starting_equity |-> 1000000,
      daily_pnl |-> 0,
      open_positions |-> 0,
      last_loss_time |-> NoVal,
      consecutive_losses |-> 0,
      last_reset_date |-> NoVal,
      trade_history |-> <<>> ]

Min(a, b) == IF a <= b THEN a ELSE b
Max(a, b) == IF a >= b THEN a ELSE b

\* the last n elements of a sequence (s[-n:])
LastN(s, n) == IF Len(s) <= n THEN s ELSE SubSeq(s, Len(s) - n + 1, Len(s))

RECURSIVE SeqSum(_)
SeqSum(s) == IF s = <<>> THEN 0 ELSE s[1] + SeqSum(Tail(s))

\* RiskManager.check_daily_reset / reset_daily
CheckDailyReset(r, t) ==
    IF r.last_reset_date # t \div MinutesPerDay
    THEN [r EXCEPT !.daily_pnl = 0,
                   !.daily_starting_equity = r.current_equity,
                   !.last_reset_date = t \div MinutesPerDay]
    ELSE r

\* _compute_kelly_fraction without the upper end of np.clip
ComputeKellyFractionUnclamped(r) ==
    LET recent == LastN(r.trade_history, r.kelly_lookback)
        wins == SelectSeq(recent, LAMBDA x : x > 0)
        losses == SelectSeq(recent, LAMBDA x : x < 0)
        n == Len(recent)
        nw == Len(wins)
        nl == Len(losses)
        sw == SeqSum(wins)
        sl == -SeqSum(losses)
        num == nw * (sw * nl - (n - nw) * sl)
        den == n * nl * sw
    IN IF n < KellyMinTrades THEN NoVal
       ELSE IF nw = 0 \/ nl = 0 THEN NoVal
       ELSE IF num <= 0 THEN 0
       ELSE (r.kelly_fraction_pct * 10000 * num) \div den

\* RiskManager._compute_kelly_fraction, in parts per million; NoVal is None
ComputeKellyFraction(r) ==
    LET recent == LastN(r.trade_history, r.kelly_lookback)
        wins == SelectSeq(recent, LAMBDA x : x > 0)
        losses == SelectSeq(recent, LAMBDA x : x < 0)
        n == Len(recent)
        nw == Len(wins)
        nl == Len(losses)
        sw == SeqSum(wins)
        sl == -SeqSum(losses)
        \* kelly = (W*avg_win - (1-W)*avg_loss) / avg_win = num / den
        num == nw * (sw * nl - (n - nw) * sl)
        den == n * nl * sw
        cap == 2 * r.risk_per_trade_bps * 100
    IN IF n < KellyMinTrades THEN NoVal
       ELSE IF nw = 0 \/ nl = 0 THEN NoVal
       ELSE IF num <= 0 THEN 0
       ELSE IF r.kelly_fraction_pct * 10000 * num >= cap * den THEN cap
       ELSE (r.kelly_fraction_pct * 10000 * num) \div den

\* layer 1 with the take-profit one stop distance above the price
AtrLayerSingleTarget(r, price, atr_value) ==
    LET risk_dollars == (r.current_equity * r.risk_per_trade_bps) \div 10000
        stop_distance_x2 == atr_value * AtrStopMultNum
    IN [position_units |-> IF stop_distance_x2 > 0
                           THEN (risk_dollars * 1000 * AtrStopMultDen) \div stop_distance_x2
                           ELSE 0,
        stop_price_x2 |-> price * AtrStopMultDen - stop_distance_x2,
        tp_price_x2 |-> price * AtrStopMultDen + stop_distance_x2]

\* compute_position_size, layer 1 (ATR-based risk sizing): the base units in
\* 0.001, the stop and the take-profit in cents times AtrStopMultDen
AtrLayer(r, price, atr_value) ==
    LET risk_dollars == (r.current_equity * r.risk_per_trade_bps) \div 10000
        stop_distance_x2 == atr_value * AtrStopMultNum
    IN [position_units |-> IF stop_distance_x2 > 0
                           THEN (risk_dollars * 1000 * AtrStopMultDen) \div stop_distance_x2
                           ELSE 0,
        stop_price_x2 |-> price * AtrStopMultDen - stop_distance_x2,
        tp_price_x2 |-> price * AtrStopMultDen + stop_distance_x2 * 2]

\* a sizing that applies the Kelly overlay only for a non-zero fraction
ComputePositionSizeZeroKellySkipped(r, price, atr_value) ==
    LET base == AtrLayer(r, price, atr_value).position_units
        kelly_f == ComputeKellyFraction(r)
    IN IF kelly_f = NoVal \/ kelly_f = 0 THEN base
       ELSE Min((base * kelly_f) \div (r.risk_per_trade_bps * 100), base * 2)

\* RiskManager.compute_position_size (realized_vol is never passed by
\* evaluate_trade, so the volatility layer is skipped there): units in 0.001
ComputePositionSize(r, price, atr_value) ==
    LET base == AtrLayer(r, price, atr_value).position_units
        kelly_f == ComputeKellyFraction(r)
    IN IF kelly_f = NoVal THEN base
       ELSE Min((base * kelly_f) \div (r.risk_per_trade_bps * 100), base * 2)

Rejected(r, why) == [approved |-> FALSE, reason |-> why, position_size |-> 0, rm |-> r]

\* max_units with the whole equity as the ceiling
MaxUnitsWholeEquity(r, price) ==
    IF price > 0 THEN (r.current_equity * 1000) \div price ELSE 0

\* max_position_value = current_equity * 0.5; max_units = max_position_value / price
MaxUnits(r, price) ==
    IF price > 0
    THEN (((r.current_equity * MaxPositionPct) \div 100) * 1000) \div price
    ELSE 0

\* evaluate_trade with the spread guard tested before the ATR filter
EvaluateTradeSpreadFirst(r0, symbol, price, atr_value, spread_bps, t) ==
    LET r == CheckDailyReset(r0, t)
        position_size == ComputePositionSize(r, price, atr_value)
        max_units == MaxUnits(r, price)
    IN IF /\ r.daily_pnl < 0
          /\ r.daily_starting_equity > 0
          /\ Abs(r.daily_pnl) * 100 >= r.max_daily_loss_pct * r.daily_starting_equity
       THEN Rejected(r, "daily_loss")
       ELSE IF /\ r.peak_equity > 0
               /\ (r.peak_equity - r.current_equity) * 100
                      >= r.max_total_drawdown_pct * r.peak_equity
       THEN Rejected(r, "drawdown")
       ELSE IF r.open_positions >= r.max_open_positions
       THEN Rejected(r, "max_positions")
       ELSE IF r.last_loss_time # NoVal /\ t < r.last_loss_time + r.cooldown_minutes
       THEN Rejected(r, "cooldown")
       ELSE IF spread_bps # NoVal /\ spread_bps > r.spread_guard_bps
       THEN Rejected(r, "spread")
       ELSE IF price <= 0 \/ atr_value * 1000 < r.min_atr_e3 * price
       THEN Rejected(r, "atr")
       ELSE IF position_size <= 0
       THEN Rejected(r, "size")
       ELSE [approved |-> TRUE, reason |-> "approved",
             position_size |-> Min(position_size, max_units), rm |-> r]

\* RiskManager.evaluate_trade: [approved, reason, position_size, rm]
EvaluateTrade(r0, symbol, price, atr_value, spread_bps, t) ==
    LET r == CheckDailyReset(r0, t)
        position_size == ComputePositionSize(r, price, atr_value)
        max_units == MaxUnits(r, price)
    IN IF /\ r.daily_pnl < 0
          /\ r.daily_starting_equity > 0
          /\ Abs(r.daily_pnl) * 100 >= r.max_daily_loss_pct * r.daily_starting_equity
       THEN Rejected(r, "daily_loss")
       ELSE IF /\ r.peak_equity > 0
               /\ (r.peak_equity - r.current_equity) * 100
                      >= r.max_total_drawdown_pct * r.peak_equity
       THEN Rejected(r, "drawdown")
       ELSE IF r.open_positions >= r.max_open_positions
       THEN Rejected(r, "max_positions")
       ELSE IF r.last_loss_time # NoVal /\ t < r.last_loss_time + r.cooldown_minutes
       THEN Rejected(r, "cooldown")
       ELSE IF price <= 0 \/ atr_value * 1000 < r.min_atr_e3 * price
       THEN Rejected(r, "atr")
       ELSE IF spread_bps # NoVal /\ spread_bps > r.spread_guard_bps
       THEN Rejected(r, "spread")
       ELSE IF position_size <= 0
       THEN Rejected(r, "size")
       ELSE [approved |-> TRUE, reason |-> "approved",
             position_size |-> Min(position_size, max_units), rm |-> r]

\* RiskManager.register_trade_open
RegisterTradeOpen(r) == [r EXCEPT !.open_positions = @ + 1]

\* RiskManager.register_trade_close
RegisterTradeClose(r, pnl, t) ==
    LET appended == Append(r.trade_history, pnl)
        equity == r.current_equity + pnl
    IN [r EXCEPT !.open_positions = Max(0, @ - 1),
                 !.daily_pnl = @ + pnl,
                 !.current_equity = equity,
                 !.trade_history = IF Len(appended) > r.kelly_lookback * 2
                                   THEN LastN(appended, r.kelly_lookback)
                                   ELSE appended,
                 !.consecutive_losses = IF pnl >= 0 THEN 0 ELSE @ + 1,
                 !.last_loss_time = IF pnl >= 0 THEN NoVal ELSE t,
                 !.peak_equity = IF equity > @ THEN equity ELSE @]

(***************************************************************************)
(* Exchange boundary (ExchangeClient over ccxt).  A field of an exchange   *)
(* answer is a number, None (NoVal) or missing from the dict (Absent).      *)
(***************************************************************************)
Absent == -888888
DefaultMinNotional == 1000
CancelMaxRetries == 3

\* dict.get(key, default)
Get(field, default) == IF field = Absent THEN default ELSE field

\* dict.get("status", default): a status is a string, "none" (None) or "absent"
GetStatus(field, default) == IF field = "absent" THEN default ELSE field

\* ExchangeClient.get_min_notional: the market's limits.cost.min when the
\* exchange publishes one, DEFAULT_MIN_NOTIONAL otherwise (the cache only
\* memoizes this value)
GetMinNotional(x, symbol) ==
    IF x.min_cost # NoVal /\ x.min_cost # 0 THEN x.min_cost ELSE DefaultMinNotional

\* the MIN_NOTIONAL pre-check of ExchangeClient.create_order raises ValueError
BelowMinNotional(x, symbol, amount, price) ==
    /\ price # NoVal /\ price # 0
    /\ Notional(amount, price) < GetMinNotional(x, symbol)

\* the exchange accepts an order: a new entry of its book
BookAdd(x, cid, symbol, status, filled, average, listed) ==
    [x EXCEPT !.book = Append(@, [id |-> Len(x.book) + 1, clientOrderId |-> cid,
                                  symbol |-> symbol, status |-> status,
                                  filled |-> filled, average |-> average,
                                  listed |-> listed])]

\* ExchangeClient.get_open_orders(symbol): what fetch_open_orders lists, or
\* [] when the request fails
GetOpenOrders(x, symbol, request_ok) ==
    IF request_ok
    THEN SelectSeq(x.book, LAMBDA o : o.listed /\ (symbol = ALL \/ o.symbol = symbol))
    ELSE <<>>

\* cancel_order that retries after every exception
RECURSIVE CancelOrderRetriesAnyError(_, _, _, _)
CancelOrderRetriesAnyError(answers, max_retries, attempt, waited) ==
    LET answer == answers[Min(attempt, Len(answers))]
    IN IF attempt > max_retries
       THEN [kind |-> "returned", status |-> "none", calls |-> attempt - 1, waited |-> waited]
       ELSE IF answer = "ok"
       THEN [kind |-> "returned", status |-> "canceled", calls |-> attempt, waited |-> waited]
       ELSE IF answer = "not_found"
       THEN [kind |-> "returned", status |-> "not_found", calls |-> attempt,
             waited |-> waited]
       ELSE IF attempt < max_retries
       THEN CancelOrderRetriesAnyError(answers, max_retries, attempt + 1,
                                       waited + 2 ^ attempt)
       ELSE [kind |-> "raised", status |-> answer, calls |-> attempt, waited |-> waited]

\* cancel_order that lets OrderNotFound escape like any other exchange error
RECURSIVE CancelOrderNotFoundRaises(_, _, _, _)
CancelOrderNotFoundRaises(answers, max_retries, attempt, waited) ==
    LET answer == answers[Min(attempt, Len(answers))]
    IN IF attempt > max_retries
       THEN [kind |-> "returned", status |-> "none", calls |-> attempt - 1, waited |-> waited]
       ELSE IF answer = "ok"
       THEN [kind |-> "returned", status |-> "canceled", calls |-> attempt, waited |-> waited]
       ELSE IF answer = "network" /\ attempt < max_retries
       THEN CancelOrderNotFoundRaises(answers, max_retries, attempt + 1,
                                      waited + 2 ^ attempt)
       ELSE [kind |-> "raised", status |-> answer, calls |-> attempt, waited |-> waited]

\* ExchangeClient.cancel_order from its attempt-th pass through the loop on;
\* answers[i] is what exchange.cancel_order does at the i-th call (the last
\* answer repeats): "ok", ccxt.NetworkError, ccxt.OrderNotFound or another
\* exception.  calls counts the exchange calls, waited the seconds slept.
RECURSIVE CancelOrder(_, _, _, _)
CancelOrder(answers, max_retries, attempt, waited) ==
    LET answer == answers[Min(attempt, Len(answers))]
    IN IF attempt > max_retries
       THEN [kind |-> "returned", status |-> "none", calls |-> attempt - 1, waited |-> waited]
       ELSE IF answer = "ok"
       THEN [kind |-> "returned", status |-> "canceled", calls |-> attempt, waited |-> waited]
       ELSE IF answer = "not_found"
       THEN [kind |-> "returned", status |-> "not_found", calls |-> attempt,
             waited |-> waited]
       ELSE IF answer = "network" /\ attempt < max_retries
       THEN CancelOrder(answers, max_retries, attempt + 1, waited + 2 ^ attempt)
       ELSE [kind |-> "raised", status |-> answer, calls |-> attempt, waited |-> waited]

\* the exchange after it cancelled the orders in ids; the orders in settled
\* were no longer open when their cancel arrived (OrderNotFound)
BookCancel(x, ids, settled) ==
    [x EXCEPT !.book = [i \in 1..Len(x.book) |->
                           IF i \in ids
                           THEN [x.book[i] EXCEPT !.status = "canceled", !.listed = FALSE]
                           ELSE IF i \in settled
                           THEN [x.book[i] EXCEPT !.listed = FALSE]
                           ELSE x.book[i]]]

\* ExchangeClient.fetch_order(order_id, symbol): the order or None
FetchOrder(x, order_id, request_ok) ==
    IF request_ok /\ order_id \in 1..Len(x.book) THEN <<x.book[order_id]>> ELSE <<>>

(***************************************************************************)
(* Executor: ManagedOrder and the order state machine.  hist, creates and  *)
(* reconciled are history fields: the statuses assigned to the order so    *)
(* far, the number of create_order calls made for it, and whether the      *)
(* timeout path was taken.                                                 *)
(***************************************************************************)
FallbackSize == 1

Terminal == {"FILLED", "CANCELLED", "ERROR"}

\* ManagedOrder.is_terminal
IsTerminal(o) == o.status \in Terminal

\* ManagedOrder.remaining_qty
RemainingQty(o) == Max(0, o.qty - o.filled_qty)

\* strategy.replace("_", "").upper()[:6]
StratClean(strategy) ==
    CASE strategy = "trend_ema" -> "TRENDE"
      [] strategy = "trendema2" -> "TRENDE"
      [] OTHER -> "TURTLE"

\* symbol.replace("/", "").replace("-", "")
SymClean(symbol) ==
    CASE symbol = "BTC/USDT" -> "BTCUSDT"
      [] OTHER -> "ETHUSDT"

\* generate_client_order_id: HOT_{strategy}_{symbol}_{ts to the minute}_{uuid8}
GenerateClientOrderId(strategy, symbol, t, uuid8) ==
    <<"HOT", StratClean(strategy), SymClean(symbol), t, uuid8>>

\* ManagedOrder(...) as _execute_open builds it
NewManagedOrder(client_id, symbol, side, order_type, qty, price, strategy) ==
    [ client_order_id |-> client_id, symbol |-> symbol, side |-> side,
      order_type |-> order_type, qty |-> qty, price |-> price,
      strategy |-> strategy, status |-> "PENDING", exchange_order_id |-> NoVal,
      filled_qty |-> 0, avg_fill_price |-> 0, fees |-> 0, chase_attempts |-> 0,
      hist |-> <<"PENDING">>, creates |-> 0, reconciled |-> FALSE, remote |-> <<>> ]

\* order.status = s
SetStatus(o, s) == [o EXCEPT !.status = s, !.hist = Append(@, s)]

\* reconciliation that trusts the remote status alone: open is Submitted,
\* partially_filled is Partial
ReconcileResultByStatus(o0, result) ==
    LET o == [o0 EXCEPT !.remote = result]
    IN IF result = <<>> THEN SetStatus(o, "ORPHANED")
       ELSE LET res == result[1]
                status == GetStatus(res.status, "unknown")
            IN IF status = "closed"
               THEN LET o1 == SetStatus(o, "FILLED")
                        o2 == [o1 EXCEPT !.filled_qty = Get(res.filled, o.qty)]
                    IN IF res.filled = NoVal THEN SetStatus(o1, "ORPHANED")
                       ELSE IF res.average = NoVal THEN SetStatus(o2, "ORPHANED")
                       ELSE [o2 EXCEPT !.avg_fill_price = Get(res.average, o.price)]
               ELSE IF status \in {"open", "partially_filled"}
               THEN IF res.filled = NoVal THEN SetStatus(o, "ORPHANED")
                    ELSE LET o1 == [o EXCEPT !.filled_qty = Get(res.filled, 0)]
                         IN SetStatus(o1, IF status = "partially_filled" THEN "PARTIAL"
                                          ELSE "SUBMITTED")
               ELSE SetStatus(o, "ORPHANED")

\* Executor._reconcile_order from the lookup's result on: result is <<>>
\* (None) or <<order dict>>; float(None) raises into the except branch.
\* remote keeps the result the reconciliation looked at.
ReconcileResult(o0, result) ==
    LET o == [o0 EXCEPT !.remote = result]
    IN IF result = <<>> THEN SetStatus(o, "ORPHANED")
       ELSE LET res == result[1]
                status == GetStatus(res.status, "unknown")
            IN IF status = "closed"
               THEN LET o1 == SetStatus(o, "FILLED")
                        o2 == [o1 EXCEPT !.filled_qty = Get(res.filled, o.qty)]
                    IN IF res.filled = NoVal THEN SetStatus(o1, "ORPHANED")
                       ELSE IF res.average = NoVal THEN SetStatus(o2, "ORPHANED")
                       ELSE [o2 EXCEPT !.avg_fill_price = Get(res.average, o.price)]
               ELSE IF status \in {"open", "partially_filled"}
               THEN IF res.filled = NoVal THEN SetStatus(o, "ORPHANED")
                    ELSE LET o1 == [o EXCEPT !.filled_qty = Get(res.filled, 0)]
                         IN SetStatus(o1, IF o1.filled_qty > 0 THEN "PARTIAL"
                                          ELSE "SUBMITTED")
               ELSE SetStatus(o, "ORPHANED")

\* the lookup of _reconcile_order: by exchange_order_id when known, else
\* the first open order carrying the client_order_id
ReconcileLookup(x, o, request_ok) ==
    IF o.exchange_order_id # NoVal
    THEN FetchOrder(x, o.exchange_order_id, request_ok)
    ELSE LET open_orders == GetOpenOrders(x, o.symbol, request_ok)
             same == SelectSeq(open_orders,
                               LAMBDA oo : oo.clientOrderId = o.client_order_id)
         IN IF same = <<>> THEN <<>> ELSE <<same[1]>>

\* Executor._reconcile_order
ReconcileOrder(x, o, has_client, request_ok) ==
    IF ~has_client THEN SetStatus(o, "ORPHANED")
    ELSE ReconcileResult(o, ReconcileLookup(x, o, request_ok))

\* a blind retry on timeout: submit again, then reconcile
OnRequestTimeoutRetry(x, o, request_ok) ==
    ReconcileOrder(x, [o EXCEPT !.creates = @ + 1, !.reconciled = TRUE], TRUE, request_ok)

\* the except ccxt.RequestTimeout branch of _execute_live_open
OnRequestTimeout(x, o, request_ok) ==
    ReconcileOrder(x, [o EXCEPT !.reconciled = TRUE], TRUE, request_ok)

\* the try body of _execute_live_open after create_order returned resp
OnCreateResponse(o, resp) ==
    LET o1 == SetStatus([o EXCEPT !.exchange_order_id = resp.id], "SUBMITTED")
        resp_status == GetStatus(resp.status, "open")
    IN IF resp_status = "closed"
       THEN LET o2 == SetStatus(o1, "FILLED")
                o3 == [o2 EXCEPT !.filled_qty = Get(resp.filled, o.qty)]
            IN IF resp.filled = NoVal THEN SetStatus(o2, "ERROR")
               ELSE IF resp.average = NoVal THEN SetStatus(o3, "ERROR")
               ELSE [o3 EXCEPT !.avg_fill_price = Get(resp.average, o.price)]
       ELSE IF resp_status = "partially_filled"
       THEN LET o2 == SetStatus(o1, "PARTIAL")
            IN IF resp.filled = NoVal THEN SetStatus(o2, "ERROR")
               ELSE [o2 EXCEPT !.filled_qty = Get(resp.filled, 0)]
       ELSE o1

(***************************************************************************)
(* What the exchange can answer to create_order.  An environment env fixes  *)
(* the inputs a specification explores; env.rich widens the answers to      *)
(* every shape the handlers distinguish.                                    *)
(***************************************************************************)
FilledAnswers(qty) ==
    {Absent, NoVal, 0, qty + 1} \cup (IF qty > 1 THEN {qty \div 2} ELSE {qty})

\* the (filled, average) pairs of an order the exchange reports closed
ClosedAnswers(rich, qty, price) ==
    IF rich
    THEN {<<qty, price>>, <<qty + 1, price>>, <<NoVal, price>>, <<qty, NoVal>>,
          <<Absent, Absent>>}
    ELSE {<<qty, price>>}

\* create_order returned: the exchange holds the order as answered
CreateResponses(rich, qty, price) ==
    {[kind |-> "response", status |-> "closed", filled |-> fa[1], average |-> fa[2],
      held |-> TRUE, listed |-> FALSE, lookup_ok |-> TRUE] :
        fa \in ClosedAnswers(rich, qty, price)}
    \cup
    {[kind |-> "response", status |-> "partially_filled", filled |-> f,
      average |-> Absent, held |-> TRUE, listed |-> TRUE, lookup_ok |-> TRUE] :
        f \in IF rich THEN FilledAnswers(qty) ELSE {}}
    \cup
    {[kind |-> "response", status |-> st, filled |-> 0, average |-> Absent,
      held |-> TRUE, listed |-> (st # "canceled"), lookup_ok |-> TRUE] :
        st \in IF rich THEN {"open", "none", "absent", "canceled"} ELSE {"open"}}

\* create_order raised ccxt.RequestTimeout: the exchange may or may not hold
\* the order; a closed or canceled order may or may not still be listed by
\* fetch_open_orders; the lookup itself may fail
CreateTimeouts(rich, qty, price) ==
    IF ~rich THEN {}
    ELSE
    {[kind |-> "timeout", status |-> "absent", filled |-> Absent, average |-> Absent,
      held |-> FALSE, listed |-> FALSE, lookup_ok |-> ok] : ok \in BOOLEAN}
    \cup
    {[kind |-> "timeout", status |-> st, filled |-> f, average |-> Absent,
      held |-> TRUE, listed |-> TRUE, lookup_ok |-> TRUE] :
        st \in {"open", "partially_filled"}, f \in FilledAnswers(qty)}
    \cup
    {[kind |-> "timeout", status |-> "closed", filled |-> fa[1], average |-> fa[2],
      held |-> TRUE, listed |-> TRUE, lookup_ok |-> TRUE] :
        fa \in ClosedAnswers(rich, qty, price)}
    \cup
    {[kind |-> "timeout", status |-> "closed", filled |-> qty, average |-> price,
      held |-> TRUE, listed |-> FALSE, lookup_ok |-> TRUE]}
    \cup
    {[kind |-> "timeout", status |-> "canceled", filled |-> 0, average |-> Absent,
      held |-> TRUE, listed |-> TRUE, lookup_ok |-> ok] : ok \in BOOLEAN}

\* create_order raised ccxt.RateLimitExceeded or any other exception
CreateFailures(rich) ==
    {[kind |-> k, status |-> "absent", filled |-> Absent, average |-> Absent,
      held |-> FALSE, listed |-> FALSE, lookup_ok |-> TRUE] :
        k \in IF rich THEN {"rate_limit", "exception"} ELSE {}}

CreateOutcomes(rich, qty, price) ==
    CreateResponses(rich, qty, price) \cup CreateTimeouts(rich, qty, price)
        \cup CreateFailures(rich)

\* the exchange side of a create_order call with outcome out
ExchangeAfterCreate(x, cid, symbol, out) ==
    IF out.held
    THEN BookAdd(x, cid, symbol, out.status, out.filled, out.average, out.listed)
    ELSE x

\* Executor._execute_live_open: the order when the call returns
LiveOpenOrder(x, o, has_client, out) ==
    IF ~has_client THEN SetStatus(o, "ERROR")
    ELSE LET sent == [o EXCEPT !.creates = @ + 1]
         IN IF BelowMinNotional(x, o.symbol, o.qty, o.price)
            THEN SetStatus(sent, "ERROR")
            ELSE IF out.kind = "response"
            THEN OnCreateResponse(sent, [id |-> Len(x.book) + 1, status |-> out.status,
                                         filled |-> out.filled, average |-> out.average])
            ELSE IF out.kind = "timeout"
            THEN OnRequestTimeout(ExchangeAfterCreate(x, o.client_order_id, o.symbol, out),
                                  sent, out.lookup_ok)
            ELSE SetStatus(sent, "ERROR")

\* Executor._execute_live_open: the exchange when the call returns
LiveOpenExchange(x, o, has_client, out) ==
    IF ~has_client \/ BelowMinNotional(x, o.symbol, o.qty, o.price) THEN x
    ELSE ExchangeAfterCreate(x, o.client_order_id, o.symbol, out)

(***************************************************************************)
(* Executor.execute_signal                                                 *)
(***************************************************************************)
NoCid == <<>>

NoOutcome == [kind |-> "none", status |-> "absent", filled |-> Absent,
              average |-> Absent, held |-> FALSE, listed |-> FALSE, lookup_ok |-> TRUE]

Returned(signal, symbol, result, by, cid) ==
    [op |-> "execute_signal", signal |-> signal, symbol |-> symbol,
     result |-> result, by |-> by, cid |-> cid]

\* the two gates in the other order: the risk manager is evaluated before
\* the circuit breaker's verdict is looked at
OpenDecisionManagerFirst(symbol, price, atr) ==
    LET pv == IF executor.portfolio THEN GetEquity(portfolio, symbol, price) ELSE NoVal
        c == IF executor.circuit_breaker
             THEN Check(cb, symbol, price, pv, NoVal, now)
             ELSE [allowed |-> TRUE, why |-> "ok", cb |-> cb]
        use_rm == executor.risk_manager /\ atr # NoVal /\ atr # 0
        d == EvaluateTrade(rm, symbol, price, atr, NoVal, now)
        r == IF use_rm THEN d.rm ELSE rm
    IN IF ~c.allowed
       THEN [go |-> FALSE, by |-> "circuit_breaker", cb |-> c.cb, rm |-> r, size |-> 0]
       ELSE IF use_rm /\ ~d.approved
       THEN [go |-> FALSE, by |-> "risk_manager", cb |-> c.cb, rm |-> r, size |-> 0]
       ELSE IF use_rm
       THEN [go |-> TRUE, by |-> "none", cb |-> c.cb, rm |-> r, size |-> d.position_size]
       ELSE [go |-> TRUE, by |-> "none", cb |-> c.cb, rm |-> rm, size |-> FallbackSize]

\* steps 1 and 2 of Executor._execute_open: the circuit breaker, then the
\* risk manager (skipped, with the fallback size, without a manager or an ATR)
OpenDecision(symbol, price, atr) ==
    LET pv == IF executor.portfolio THEN GetEquity(portfolio, symbol, price) ELSE NoVal
        c == IF executor.circuit_breaker
             THEN Check(cb, symbol, price, pv, NoVal, now)
             ELSE [allowed |-> TRUE, why |-> "ok", cb |-> cb]
        use_rm == executor.risk_manager /\ atr # NoVal /\ atr # 0
        d == EvaluateTrade(rm, symbol, price, atr, NoVal, now)
    IN IF ~c.allowed
       THEN [go |-> FALSE, by |-> "circuit_breaker", cb |-> c.cb, rm |-> rm, size |-> 0]
       ELSE IF use_rm /\ ~d.approved
       THEN [go |-> FALSE, by |-> "risk_manager", cb |-> c.cb, rm |-> d.rm, size |-> 0]
       ELSE IF use_rm
       THEN [go |-> TRUE, by |-> "none", cb |-> c.cb, rm |-> d.rm, size |-> d.position_size]
       ELSE [go |-> TRUE, by |-> "none", cb |-> c.cb, rm |-> rm, size |-> FallbackSize]

\* _execute_paper_open that calls register_trade_open whatever the ledger said
PaperOpenAlwaysRegisters(signal, o, dec) ==
    LET r == IF o.side = "BUY"
             THEN OpenLong(portfolio, o.symbol, o.qty, o.price, o.strategy)
             ELSE OpenShort(portfolio, o.symbol, o.qty, o.price, o.strategy)
        filled == [SetStatus(o, "FILLED") EXCEPT !.filled_qty = o.qty,
                                                 !.avg_fill_price = r.fill_price,
                                                 !.fees = r.fees]
    IN /\ rm' = RegisterTradeOpen(dec.rm)
       /\ IF executor.portfolio /\ r.ok
          THEN /\ orders' = (o.client_order_id :> filled) @@ orders
               /\ portfolio' = r.p
               /\ execOpen' = execOpen \cup {o.symbol}
               /\ last' = Returned(signal, o.symbol, "FILLED", "none", o.client_order_id)
               /\ UNCHANGED exchange
          ELSE /\ orders' = (o.client_order_id :> SetStatus(o, "ERROR")) @@ orders
               /\ last' = Returned(signal, o.symbol, "ERROR", "none", o.client_order_id)
               /\ UNCHANGED <<portfolio, exchange, execOpen>>

\* Executor._execute_paper_open
PaperOpen(signal, o, dec) ==
    LET r == IF o.side = "BUY"
             THEN OpenLong(portfolio, o.symbol, o.qty, o.price, o.strategy)
             ELSE OpenShort(portfolio, o.symbol, o.qty, o.price, o.strategy)
        filled == [SetStatus(o, "FILLED") EXCEPT !.filled_qty = o.qty,
                                                 !.avg_fill_price = r.fill_price,
                                                 !.fees = r.fees]
    IN IF executor.portfolio /\ r.ok
       THEN /\ orders' = (o.client_order_id :> filled) @@ orders
            /\ portfolio' = r.p
            /\ rm' = IF executor.risk_manager THEN RegisterTradeOpen(dec.rm) ELSE dec.rm
            /\ execOpen' = execOpen \cup {o.symbol}
            /\ last' = Returned(signal, o.symbol, "FILLED", "none", o.client_order_id)
            /\ UNCHANGED exchange
       ELSE /\ orders' = (o.client_order_id :> SetStatus(o, "ERROR")) @@ orders
            /\ rm' = dec.rm
            /\ last' = Returned(signal, o.symbol, "ERROR", "none", o.client_order_id)
            /\ UNCHANGED <<portfolio, exchange, execOpen>>

\* Executor._execute_live_open
LiveOpen(signal, o, dec, out) ==
    LET done == LiveOpenOrder(exchange, o, executor.exchange_client, out)
    IN /\ orders' = (o.client_order_id :> done) @@ orders
       /\ exchange' = LiveOpenExchange(exchange, o, executor.exchange_client, out)
       /\ rm' = dec.rm
       /\ execOpen' = IF done.status = "FILLED" THEN execOpen \cup {o.symbol} ELSE execOpen
       /\ last' = Returned(signal, o.symbol, done.status, "none", o.client_order_id)
       /\ UNCHANGED portfolio

\* execute_signal with a HOLD signal or an unknown action
ExecuteHold(env) ==
    /\ calls < env.max_calls
    /\ \E symbol \in env.symbols, signal \in {"HOLD", "UNKNOWN"} :
         last' = Returned(signal, symbol, "NONE", "none", NoCid)
    /\ calls' = calls + 1
    /\ UNCHANGED <<ensemble, limiter, now, cbVars, executor, orders, portfolio, rm, exchange, execOpen>>

\* execute_signal with OPEN_LONG / OPEN_SHORT: Executor._execute_open
ExecuteOpen(env) ==
    /\ calls < env.max_calls
    /\ \E symbol \in env.symbols, signal \in env.opens, price \in env.prices,
          atr \in env.atrs, strategy \in env.strategies, uuid8 \in env.uuids :
         LET dec == OpenDecision(symbol, price, atr)
             client_id == GenerateClientOrderId(strategy, symbol, now, uuid8)
             o == NewManagedOrder(client_id, symbol,
                                  IF signal = "OPEN_LONG" THEN "BUY" ELSE "SELL",
                                  IF executor.mode = "live" THEN "limit" ELSE "market",
                                  dec.size, price, strategy)
             submits == /\ executor.mode = "live" /\ executor.exchange_client
                        /\ ~BelowMinNotional(exchange, symbol, dec.size, price)
         IN /\ cb' = dec.cb
            /\ tripLog' = tripLog \cup NewTrips(cb, dec.cb)
            /\ IF ~dec.go
               THEN /\ rm' = dec.rm
                    /\ last' = Returned(signal, symbol, "REJECTED", dec.by, NoCid)
                    /\ UNCHANGED <<orders, portfolio, exchange, execOpen>>
               ELSE IF executor.mode = "paper"
               THEN PaperOpen(signal, o, dec)
               ELSE \E out \in IF submits THEN CreateOutcomes(env.rich, dec.size, price)
                               ELSE {NoOutcome} :
                        LiveOpen(signal, o, dec, out)
    /\ calls' = calls + 1
    /\ UNCHANGED <<ensemble, limiter, now, cbLast, executor>>

\* what a live close order can be answered
CloseOutcomes(rich, size, price) ==
    {[kind |-> "response", filled |-> f, average |-> a] :
        f \in IF rich THEN {Absent, NoVal, size} ELSE {Absent},
        a \in IF rich THEN {Absent, NoVal, price} ELSE {price}}
    \cup {[kind |-> "exception", filled |-> Absent, average |-> Absent]}

\* a completed close that tells the risk manager only
AfterCloseManagerOnly(pnl) ==
    /\ rm' = IF executor.risk_manager THEN RegisterTradeClose(rm, pnl, now) ELSE rm
    /\ UNCHANGED <<cb, tripLog>>

\* the hooks a completed close calls with its realized pnl
AfterClose(pnl) ==
    /\ rm' = IF executor.risk_manager THEN RegisterTradeClose(rm, pnl, now) ELSE rm
    /\ LET c1 == IF executor.circuit_breaker
                 THEN RegisterTradeResult(cb, pnl, now) ELSE cb
       IN /\ cb' = c1
          /\ tripLog' = tripLog \cup NewTrips(cb, c1)

\* Executor._execute_paper_close
PaperClose(signal, symbol, price) ==
    LET pos == portfolio.positions[symbol]
        r == IF pos.side = "LONG" THEN CloseLong(portfolio, symbol, price)
             ELSE CloseShort(portfolio, symbol, price)
    IN IF ~executor.portfolio \/ pos = NoPos
       THEN /\ last' = Returned(signal, symbol, "NONE", "none", NoCid)
            /\ UNCHANGED <<cb, tripLog, rm, portfolio, exchange, execOpen>>
       ELSE /\ portfolio' = r.p
            /\ AfterClose(r.pnl)
            /\ execOpen' = execOpen \ {symbol}
            /\ last' = Returned(signal, symbol, "CLOSED", "none", NoCid)
            /\ UNCHANGED exchange

\* Executor._execute_live_close
LiveClose(env, signal, symbol, price, strategy, uuid8) ==
    LET pos == portfolio.positions[symbol]
        client_id == GenerateClientOrderId(strategy, symbol, now, uuid8)
    IN IF ~executor.exchange_client \/ ~executor.portfolio \/ pos = NoPos
       THEN /\ last' = Returned(signal, symbol, "NONE", "none", NoCid)
            /\ UNCHANGED <<cb, tripLog, rm, portfolio, exchange, execOpen>>
       ELSE \E out \in CloseOutcomes(env.rich_close, pos.size, price) :
              LET fill_price == Get(out.average, price)
                  filled_qty == Get(out.filled, pos.size)
                  gain == Notional(filled_qty, fill_price - pos.entry_price)
                  pnl == IF pos.side = "SHORT" THEN -gain ELSE gain
              IN IF out.kind = "exception" \/ out.average = NoVal \/ out.filled = NoVal
                 THEN /\ exchange' = IF out.kind = "exception" THEN exchange
                                     ELSE BookAdd(exchange, client_id, symbol, "closed",
                                                  out.filled, out.average, FALSE)
                      /\ last' = Returned(signal, symbol, "ERROR", "none", client_id)
                      /\ UNCHANGED <<cb, tripLog, rm, portfolio, execOpen>>
                 ELSE /\ exchange' = BookAdd(exchange, client_id, symbol, "closed",
                                             out.filled, out.average, FALSE)
                      /\ AfterClose(pnl)
                      /\ execOpen' = execOpen \ {symbol}
                      /\ last' = Returned(signal, symbol, "CLOSED", "none", client_id)
                      /\ UNCHANGED portfolio

\* execute_signal with CLOSE_LONG / CLOSE_SHORT: Executor._execute_close
ExecuteClose(env) ==
    /\ calls < env.max_calls
    /\ \E symbol \in env.symbols, signal \in env.closes, price \in env.prices,
          strategy \in env.strategies, uuid8 \in env.uuids :
         IF executor.mode = "paper" THEN PaperClose(signal, symbol, price)
         ELSE LiveClose(env, signal, symbol, price, strategy, uuid8)
    /\ calls' = calls + 1
    /\ UNCHANGED <<ensemble, limiter, now, cbLast, executor, orders>>

\* Executor.cancel_all_open_orders(symbol): cancel_order is called for every
\* listed order, with the default max_retries; answers[id] is what the
\* exchange does to the calls for order id.  The order table is not touched.
CancelAllOpenOrders(env) ==
    /\ calls < env.max_calls
    /\ executor.mode = "live" /\ executor.exchange_client
    /\ \E symbol \in env.symbols \cup {ALL}, request_ok \in BOOLEAN :
         LET open_orders == GetOpenOrders(exchange, symbol, request_ok)
             ids == {open_orders[i].id : i \in 1..Len(open_orders)}
         IN \E answers \in [ids -> env.cancel_answers] :
              LET done == [id \in ids |->
                              CancelOrder(answers[id], CancelMaxRetries, 1, 0)]
                  cancelled == {id \in ids : done[id].kind = "returned"}
              IN /\ exchange' = BookCancel(exchange,
                                           {id \in ids : done[id].status = "canceled"},
                                           {id \in ids : done[id].status = "not_found"})
                 /\ last' = [op |-> "cancel_all_open_orders", signal |-> "none",
                             symbol |-> symbol,
                             result |-> Cardinality(cancelled), by |-> "none",
                             cid |-> NoCid, listed |-> ids, answers |-> answers,
                             done |-> done]
    /\ calls' = calls + 1
    /\ UNCHANGED <<ensemble, limiter, now, cbVars, executor, orders, portfolio, rm, execOpen>>

\* ExchangeClient.cancel_order(order_id, symbol, max_retries) called by the
\* owner of the client on an order of the exchange
CancelOrderCall(env) ==
    /\ calls < env.max_calls
    /\ executor.exchange_client
    /\ \E id \in 1..Len(exchange.book), answers \in env.cancel_answers,
          max_retries \in env.cancel_retries :
         LET done == CancelOrder(answers, max_retries, 1, 0)
         IN /\ exchange' = BookCancel(exchange,
                                      IF done.status = "canceled" THEN {id} ELSE {},
                                      IF done.status = "not_found" THEN {id} ELSE {})
            /\ last' = [op |-> "cancel_order", signal |-> "none",
                        symbol |-> exchange.book[id].symbol, result |-> done.kind,
                        by |-> "none", cid |-> NoCid, id |-> id, answers |-> answers,
                        max_retries |-> max_retries, done |-> done]
    /\ calls' = calls + 1
    /\ UNCHANGED <<ensemble, limiter, now, cbVars, executor, orders, portfolio, rm, execOpen>>

\* Executor.reconcile_on_startup: returns the open orders the exchange
\* lists, [] when the lookup fails or when there is no exchange to ask
ReconcileOnStartup ==
    /\ \E request_ok \in BOOLEAN :
         last' = [op |-> "reconcile_on_startup", signal |-> "none", symbol |-> ALL,
                  result |-> IF executor.mode = "live" /\ executor.exchange_client
                             THEN Len(GetOpenOrders(exchange, ALL, request_ok))
                             ELSE 0,
                  by |-> "none", cid |-> NoCid]
    /\ executor' = [executor EXCEPT !.startup_reconciled =
                        @ \/ (executor.mode = "live" /\ executor.exchange_client)]
    /\ UNCHANGED <<ensemble, limiter, now, calls, cbVars, orders, portfolio, rm, exchange, execOpen>>

\* Executor.get_status: the summary (result is its pending count); reads only
ExecutorGetStatus ==
    /\ last' = [op |-> "get_status", signal |-> "none", symbol |-> ALL,
                result |-> Cardinality({cid \in DOMAIN orders : ~IsTerminal(orders[cid])}),
                by |-> "none", cid |-> NoCid,
                total_orders |-> Cardinality(DOMAIN orders),
                filled |-> Cardinality({cid \in DOMAIN orders :
                                           orders[cid].status = "FILLED"}),
                errors |-> Cardinality({cid \in DOMAIN orders :
                                           orders[cid].status = "ERROR"})]
    /\ UNCHANGED <<ensemble, limiter, now, calls, cbVars, executor, orders, portfolio, rm, exchange,
                   execOpen>>

\* time passes between two Executor calls
ExecTick(env) ==
    /\ \E d \in env.ticks : now + d <= env.max_now /\ now' = now + d
    /\ UNCHANGED <<ensemble, limiter, calls, cbVars, exVars>>

\* Executor(mode, portfolio, exchange_client, risk_manager, circuit_breaker)
\* right after construction, with fresh collaborators
InitExecutor(env) ==
    /\ now = 0
    /\ calls = 0
    /\ cb = CircuitBreakerInit
    /\ cbLast = NoCall
    /\ tripLog = {}
    /\ \E i \in env.inits :
         /\ executor = i.executor
         /\ portfolio = i.portfolio
         /\ rm = [RiskManagerInit EXCEPT !.max_open_positions = i.max_open_positions]
         /\ exchange = [book |-> <<>>, min_cost |-> i.min_cost]
    /\ orders = <<>>
    /\ last = [op |-> "none", signal |-> "none", symbol |-> ALL, result |-> "NONE",
               by |-> "none", cid |-> NoCid]
    /\ execOpen = {}
    /\ limiter = NoLimiter
    /\ ensemble = NoEnsemble

(***************************************************************************)
(* The Executor in live mode, against every answer of the exchange          *)
(***************************************************************************)
MaxLiveCalls == 2
MaxLiveNow == 15

\* a ledger its owner has already traded on before handing it to the Executor
SeededPortfolio == OpenLong(PortfolioInit, "BTC/USDT", 1000, 10000, "trend_ema").p

\* Executor(mode, portfolio, exchange_client, risk_manager, circuit_breaker);
\* startup_reconciled records that reconcile_on_startup has queried the exchange
Config(mode, p, x, r, c) ==
    [mode |-> mode, portfolio |-> p, exchange_client |-> x, risk_manager |-> r,
     circuit_breaker |-> c, startup_reconciled |-> FALSE]

\* a construction: the Executor's arguments, the manager's position ceiling,
\* the exchange's published minimum order value and the ledger handed over
Construction(config, max_open_positions, min_cost, ledger) ==
    [executor |-> config, max_open_positions |-> max_open_positions,
     min_cost |-> min_cost, portfolio |-> ledger]

LiveEnv ==
    [ inits |-> { Construction(Config("live", TRUE, TRUE, TRUE, TRUE), 2, NoVal,
                               SeededPortfolio),
                  Construction(Config("live", TRUE, FALSE, TRUE, TRUE), 2, NoVal,
                               PortfolioInit) },
      symbols |-> {"BTC/USDT"},
      opens |-> {"OPEN_LONG"},
      closes |-> {"CLOSE_LONG"},
      prices |-> {10000},
      atrs |-> {NoVal, 100},
      strategies |-> {"trend_ema"},
      uuids |-> {1, 2},
      rich |-> TRUE,
      rich_close |-> FALSE,
      cancel_answers |-> {<<"ok">>, <<"error">>},
      ticks |-> {15},
      max_now |-> MaxLiveNow,
      max_calls |-> MaxLiveCalls ]

NextLive ==
    \/ ExecTick(LiveEnv)
    \/ ExecuteHold(LiveEnv)
    \/ ExecuteOpen(LiveEnv)
    \/ ExecuteClose(LiveEnv)
    \/ CancelAllOpenOrders(LiveEnv)

SpecLive == InitExecutor(LiveEnv) /\ [][NextLive]_vars

\* the session as its owner runs it: the calls above, and between them any
\* number of the Executor's read-only calls
NextLiveSession ==
    \/ NextLive
    \/ ReconcileOnStartup
    \/ ExecutorGetStatus

\* the owner's loop never stops calling the Executor
FairSpecLive ==
    InitExecutor(LiveEnv) /\ [][NextLiveSession]_vars /\ WF_vars(NextLiveSession)

(***************************************************************************)
(* The Executor in both modes, with its risk manager and circuit breaker    *)
(***************************************************************************)
MaxExecCalls == 3
MaxExecNow == 60

ExecEnv ==
    [ inits |-> { Construction(Config("paper", TRUE, FALSE, TRUE, TRUE), 1, NoVal,
                               PortfolioInit),
                  Construction(Config("paper", TRUE, FALSE, FALSE, FALSE), 2, NoVal,
                               PortfolioInit),
                  Construction(Config("paper", FALSE, FALSE, TRUE, TRUE), 2, NoVal,
                               PortfolioInit),
                  Construction(Config("live", TRUE, TRUE, TRUE, TRUE), 1, NoVal,
                               PortfolioInit) },
      symbols |-> Symbols,
      opens |-> {"OPEN_LONG", "OPEN_SHORT"},
      closes |-> {"CLOSE_LONG", "CLOSE_SHORT"},
      prices |-> {8000, 10000},
      atrs |-> {NoVal, 100},
      strategies |-> {"trend_ema"},
      uuids |-> {1},
      rich |-> FALSE,
      rich_close |-> FALSE,
      cancel_answers |-> {<<"ok">>, <<"error">>},
      ticks |-> {60},
      max_now |-> MaxExecNow,
      max_calls |-> MaxExecCalls ]

NextExec ==
    \/ ExecTick(ExecEnv)
    \/ ExecuteHold(ExecEnv)
    \/ ExecuteOpen(ExecEnv)
    \/ ExecuteClose(ExecEnv)
    \/ CancelAllOpenOrders(ExecEnv)

SpecExec == InitExecutor(ExecEnv) /\ [][NextExec]_vars

(***************************************************************************)
(* CircuitBreaker driven directly by its caller                            *)
(***************************************************************************)
CBPrices == {85, 95, 100}
\* (portfolio_value, initial_value) arguments of check()
CBValuePairs == {<<NoVal, NoVal>>, <<900, NoVal>>, <<900, 1000>>}
CBSodValues == {1000}
CBPnls == {-10, 10}

InitCB ==
    /\ now = 0
    /\ cb = CircuitBreakerInit
    /\ cbLast = NoCall
    /\ tripLog = {}
    /\ calls = 0
    /\ executor = [mode |-> "paper", portfolio |-> FALSE, exchange_client |-> FALSE,
                   risk_manager |-> FALSE, circuit_breaker |-> TRUE]
    /\ orders = <<>>
    /\ portfolio = PortfolioInit
    /\ rm = RiskManagerInit
    /\ exchange = [book |-> <<>>, min_cost |-> NoVal]
    /\ last = [op |-> "none", signal |-> "none", symbol |-> ALL, result |-> "NONE",
               by |-> "none", cid |-> NoCid]
    /\ execOpen = {}
    /\ limiter = NoLimiter
    /\ ensemble = NoEnsemble

\* the inputs the circuit-breaker specification explores
CBEnv ==
    [ prices |-> CBPrices, pairs |-> CBValuePairs, sods |-> CBSodValues,
      pnls |-> CBPnls, ticks |-> TickSteps, max_now |-> MaxNow,
      max_calls |-> MaxCalls ]

\* time passes between two calls
TickIn(env) ==
    /\ \E d \in env.ticks : now + d <= env.max_now /\ now' = now + d
    /\ UNCHANGED <<ensemble, limiter, cb, cbLast, tripLog, calls, exVars>>

Tick == TickIn(CBEnv)

\* CircuitBreaker.check; streak counts the negative results registered in a
\* row so far
CBCheckIn(env) ==
    /\ calls < env.max_calls
    /\ \E symbol \in Symbols, price \in env.prices, pviv \in env.pairs :
         LET r == Check(cb, symbol, price, pviv[1], pviv[2], now)
         IN /\ cb' = r.cb
            /\ tripLog' = tripLog \cup NewTrips(cb, r.cb)
            /\ cbLast' = [op |-> "check", symbol |-> symbol, price |-> price,
                          allowed |-> r.allowed, why |-> r.why,
                          drop |-> AssetDropHit(RecordPrice(cb, symbol, price, now),
                                                symbol, price, now),
                          kill |-> /\ pviv[1] # NoVal
                                   /\ SodOf(cb, pviv[2]) # NoVal
                                   /\ KillHit(cb, pviv[1], SodOf(cb, pviv[2])),
                          early |-> RefusedEarly(cb, symbol, price, now),
                          at |-> now, streak |-> cbLast.streak]
    /\ calls' = calls + 1
    /\ UNCHANGED <<ensemble, limiter, now, exVars>>

CBCheck == CBCheckIn(CBEnv)

CBRecordPriceIn(env) ==
    /\ calls < env.max_calls
    /\ \E symbol \in Symbols, price \in env.prices :
         /\ cb' = RecordPrice(cb, symbol, price, now)
         /\ cbLast' = [NoCall EXCEPT !.op = "record_price", !.symbol = symbol,
                                     !.price = price, !.at = now,
                                     !.streak = cbLast.streak]
    /\ calls' = calls + 1
    /\ UNCHANGED <<ensemble, limiter, now, tripLog, exVars>>

CBRecordPrice == CBRecordPriceIn(CBEnv)

CBRegisterTradeResultIn(env) ==
    /\ calls < env.max_calls
    /\ \E pnl \in env.pnls :
         LET c1 == RegisterTradeResult(cb, pnl, now)
         IN /\ cb' = c1
            /\ tripLog' = tripLog \cup NewTrips(cb, c1)
            /\ cbLast' = [NoCall EXCEPT !.op = "register_trade_result", !.at = now,
                                        !.streak = IF pnl < 0 THEN cbLast.streak + 1
                                                   ELSE 0]
    /\ calls' = calls + 1
    /\ UNCHANGED <<ensemble, limiter, now, exVars>>

CBRegisterTradeResult == CBRegisterTradeResultIn(CBEnv)

CBResetDailyIn(env) ==
    /\ calls < env.max_calls
    /\ \E v \in env.sods :
         /\ cb' = ResetDaily(cb, v, now)
         /\ cbLast' = [NoCall EXCEPT !.op = "reset_daily", !.at = now,
                                     !.streak = cbLast.streak]
    /\ calls' = calls + 1
    /\ UNCHANGED <<ensemble, limiter, now, tripLog, exVars>>

CBResetDaily == CBResetDailyIn(CBEnv)

NextCB == Tick \/ CBCheck \/ CBRecordPrice \/ CBRegisterTradeResult \/ CBResetDaily

SpecCB == InitCB /\ [][NextCB]_vars

(***************************************************************************)
(* The consecutive-loss breaker: trade results at a steady price, long      *)
(* enough for a pause to start and to run out                               *)
(***************************************************************************)
MaxLossCalls == 5
MaxLossNow == 45

LossEnv ==
    [ prices |-> {100}, pairs |-> {<<NoVal, NoVal>>}, sods |-> CBSodValues,
      pnls |-> {-10, 0, 10}, ticks |-> {15}, max_now |-> MaxLossNow,
      max_calls |-> MaxLossCalls ]

NextLoss ==
    \/ TickIn(LossEnv)
    \/ CBCheckIn(LossEnv)
    \/ CBRegisterTradeResultIn(LossEnv)
    \/ CBResetDailyIn(LossEnv)

SpecLoss == InitCB /\ [][NextLoss]_vars

(***************************************************************************)
(* C10: a check() whose price is at least asset_drop_pct below the high of  *)
(* the asset window returns allowed = false and leaves a trip that blocks   *)
(* the symbol; every asset trip expires exactly one hour after it was       *)
(* triggered; and every check() for a symbol made while an asset trip on    *)
(* that symbol has not reached its expires_at returns allowed = false,      *)
(* whatever its price.                                                      *)
(***************************************************************************)
AssetTripsOn(symbol) ==
    {trip \in tripLog : trip.breaker_type = "asset" /\ trip.symbol = symbol}

PortfolioTrips == {trip \in tripLog : trip.breaker_type = "portfolio"}

\* C11 as stated: a check() whose values have (sod - current)/sod >=
\* portfolio_kill_pct is refused and records a portfolio-wide trip.
CexC11_KillAlwaysRecordsTrip ==
    (cbLast.op = "check" /\ cbLast.kill) =>
        /\ ~cbLast.allowed
        /\ \E trip \in PortfolioTrips : trip.triggered_at = cbLast.at

\* C11 amended: a check() whose values have (sod - current)/sod >=
\* portfolio_kill_pct is refused; unless an active trip, the asset drop or
\* the flash crash refused it first, it records a trip for all symbols that
\* expires 24 hours later; while such a trip has not expired every check(),
\* for any symbol, is refused.
ThmC11_KillSwitchBlocksEverySymbol ==
    /\ \A trip \in PortfolioTrips :
         trip.symbol = ALL /\ trip.expires_at = trip.triggered_at + 1440
    /\ cbLast.op = "check" =>
         /\ cbLast.kill => ~cbLast.allowed
         /\ (cbLast.kill /\ ~cbLast.early) =>
              /\ cbLast.why = "portfolio"
              /\ \E trip \in PortfolioTrips : trip.triggered_at = cbLast.at
         /\ (\E trip \in PortfolioTrips :
                trip.triggered_at <= cbLast.at /\ cbLast.at < trip.expires_at)
              => ~cbLast.allowed

\* C11 witness: a later check with no drawdown of its own, refused only
\* because of the kill switch's trip
WitC11_LaterCheckBlockedByKill ==
    /\ cbLast.op = "check"
    /\ ~cbLast.kill
    /\ ~cbLast.allowed
    /\ cbLast.why = "active"
    /\ \E trip \in PortfolioTrips :
         trip.triggered_at < cbLast.at /\ cbLast.at < trip.expires_at
    /\ \A trip \in tripLog :
         trip.breaker_type # "portfolio" => ~IsActive(trip, cbLast.at)

\* the trips of the consecutive-loss breaker
ConsecutiveTrips == {trip \in tripLog : trip.breaker_type = "consecutive"}

\* C12: register_trade_result creates a trip exactly when the negative
\* results received in a row, with no non-negative one in between, number
\* at least consecutive_loss_limit; the trip is for all symbols and expires
\* consecutive_cooldown_minutes later; while it has not expired every
\* check() is refused; the counter is the number of negative results in a
\* row, 0 after a non-negative one.
ThmC12_ConsecutiveLossPause ==
    /\ [](/\ cb.consecutive_losses = cbLast.streak
          /\ \A trip \in ConsecutiveTrips :
               /\ trip.symbol = ALL
               /\ trip.expires_at = trip.triggered_at + cb.consecutive_cooldown_minutes
          /\ cbLast.op = "check" =>
               ((\E trip \in ConsecutiveTrips :
                    trip.triggered_at <= cbLast.at /\ cbLast.at < trip.expires_at)
                  => ~cbLast.allowed))
    /\ [][ cbLast'.op = "register_trade_result" /\ calls' = calls + 1 =>
             /\ Len(cb'.trips) \in {Len(cb.trips), Len(cb.trips) + 1}
             /\ Len(cb'.trips) = Len(cb.trips) + 1
                   <=> cbLast'.streak >= cb.consecutive_loss_limit
             /\ Len(cb'.trips) = Len(cb.trips) + 1 =>
                   /\ cb'.trips[Len(cb'.trips)].breaker_type = "consecutive"
                   /\ cb'.trips[Len(cb'.trips)].triggered_at = now ]_vars

\* C12 witness: a pause tripped by the third loss in a row has run out and
\* check() is allowed again
WitC12_PauseRanOut ==
    /\ cbLast.op = "check"
    /\ cbLast.allowed
    /\ cbLast.streak >= cb.consecutive_loss_limit
    /\ \E trip \in ConsecutiveTrips : trip.expires_at <= cbLast.at

(***************************************************************************)
(* Properties of the Executor                                              *)
(***************************************************************************)
\* the entry execute_signal last returned, when it returned one
LastOrder == orders[last.cid]

HasLastOrder ==
    last.op = "execute_signal" /\ last.cid # NoCid /\ last.cid \in DOMAIN orders

\* the exchange's record of the order sent last
LastBooked == exchange.book[Len(exchange.book)]

Numeric(field) == field # Absent /\ field # NoVal

Settled == Terminal \cup {"ORPHANED"}

\* C1: in live mode create_order is called at most once for every
\* ManagedOrder; an order whose submission timed out was submitted exactly
\* once and then only looked up; a call of the Executor puts at most one
\* order on the exchange.
ThmC1_AtMostOneCreatePerOrder ==
    /\ \A cid \in DOMAIN orders :
         /\ orders[cid].creates <= 1
         /\ orders[cid].reconciled => orders[cid].creates = 1
    /\ Len(exchange.book) <= calls

\* C1 witness: a submission timed out while the exchange holds the order,
\* and the exchange holds that one order only
WitC1_TimedOutSubmittedOnce ==
    \E cid \in DOMAIN orders :
        /\ orders[cid].reconciled
        /\ orders[cid].creates = 1
        /\ Len(exchange.book) = 1
        /\ exchange.book[1].clientOrderId = cid

\* C2: when create_order timed out while the exchange holds the order
\* closed (with a filled quantity and an average price), the entry returned
\* is Filled with the exchange's quantity and price, after one submission.
CexC2_TimeoutClosedIsFilled ==
    ( /\ HasLastOrder
      /\ LastOrder.reconciled
      /\ Len(exchange.book) > 0
      /\ LastBooked.clientOrderId = last.cid
      /\ LastBooked.status = "closed"
      /\ Numeric(LastBooked.filled) /\ Numeric(LastBooked.average) )
    => /\ LastOrder.status = "FILLED"
       /\ LastOrder.filled_qty = LastBooked.filled
       /\ LastOrder.avg_fill_price = LastBooked.average
       /\ LastOrder.creates = 1

\* what the reconciliation of order o looked at
RemoteStatus(o) == GetStatus(o.remote[1].status, "unknown")

\* C3 as stated: not found is Orphaned, remote open is Submitted, remote
\* partially_filled is Partial, any status other than closed, open and
\* partially_filled is Orphaned.
CexC3_MappingByRemoteStatus ==
    \A cid \in DOMAIN orders :
        LET o == orders[cid]
        IN o.reconciled =>
             IF o.remote = <<>> THEN o.status = "ORPHANED"
             ELSE /\ RemoteStatus(o) = "open" => o.status = "SUBMITTED"
                  /\ RemoteStatus(o) = "partially_filled" => o.status = "PARTIAL"
                  /\ RemoteStatus(o) \notin {"closed", "open", "partially_filled"}
                        => o.status = "ORPHANED"

\* C3 amended: not found is Orphaned; remote open or partially_filled is
\* Partial when the reported filled quantity is above zero, Submitted when it
\* is zero or missing, Orphaned when it is None; any status other than
\* closed, open and partially_filled is Orphaned.
ThmC3_MappingByFilledQuantity ==
    \A cid \in DOMAIN orders :
        LET o == orders[cid]
        IN o.reconciled =>
             IF o.remote = <<>> THEN o.status = "ORPHANED"
             ELSE LET filled == o.remote[1].filled
                  IN /\ RemoteStatus(o) \in {"open", "partially_filled"} =>
                          /\ filled = NoVal => o.status = "ORPHANED"
                          /\ filled # NoVal /\ Get(filled, 0) > 0 =>
                                o.status = "PARTIAL" /\ o.filled_qty = filled
                          /\ filled # NoVal /\ Get(filled, 0) <= 0 =>
                                o.status = "SUBMITTED"
                     /\ RemoteStatus(o) \notin {"closed", "open", "partially_filled"}
                          => o.status = "ORPHANED"

\* C3 witness: reconciliation found the order open with a fill reported and
\* made it Partial
WitC3_OpenWithFillIsPartial ==
    \E cid \in DOMAIN orders :
        /\ orders[cid].reconciled
        /\ orders[cid].remote # <<>>
        /\ RemoteStatus(orders[cid]) = "open"
        /\ orders[cid].status = "PARTIAL"

\* C4 (its last clause): no order ever leaves Filled, Cancelled or Error.
CexC4_TerminalStatusIsFinal ==
    \A cid \in DOMAIN orders :
        \A i \in 1..(Len(orders[cid].hist) - 1) :
            orders[cid].hist[i] \notin Terminal

\* C5: no ManagedOrder stays Pending, Submitted or Partial forever: again
\* and again every order in the table is Filled, Cancelled, Error or
\* Orphaned.
CexC5_EveryOrderSettles ==
    []<>(\A cid \in DOMAIN orders : orders[cid].status \in Settled)

\* C6: every approved open adds one entry under a client_order_id that was
\* not in the table, and no step removes or replaces an entry.
CexC6_OneEntryPerIntent ==
    [][ /\ \A cid \in DOMAIN orders :
             cid \in DOMAIN orders' /\ orders'[cid] = orders[cid]
        /\ ( /\ calls' = calls + 1
             /\ last'.op = "execute_signal"
             /\ last'.signal \in {"OPEN_LONG", "OPEN_SHORT"}
             /\ last'.result # "REJECTED" )
           => /\ last'.cid \notin DOMAIN orders
              /\ DOMAIN orders' = DOMAIN orders \cup {last'.cid} ]_vars

\* C7: every ManagedOrder has 0 <= filled_qty <= qty.
CexC7_FilledWithinRequested ==
    \A cid \in DOMAIN orders :
        0 <= orders[cid].filled_qty /\ orders[cid].filled_qty <= orders[cid].qty

\* C8: a Hold signal changes nothing; an open the circuit breaker or the
\* risk manager vetoes leaves the order table, the ledger and the exchange
\* as they were; on a circuit-breaker veto the risk manager's state is as
\* it was.
ThmC8_VetoLeavesNoTrace ==
    [][ (calls' = calls + 1 /\ last'.op = "execute_signal") =>
          /\ last'.signal = "HOLD" =>
                UNCHANGED <<orders, portfolio, exchange, rm, cb, execOpen>>
          /\ last'.result = "REJECTED" =>
                UNCHANGED <<orders, portfolio, exchange, execOpen>>
          /\ last'.by = "circuit_breaker" => rm' = rm ]_vars

\* C8 witness: the circuit breaker vetoed an open while a risk manager is
\* attached that has never been consulted (its first evaluation would have
\* run the daily reset)
WitC8_BreakerVetoManagerUntouched ==
    /\ last.op = "execute_signal"
    /\ last.result = "REJECTED"
    /\ last.by = "circuit_breaker"
    /\ executor.risk_manager
    /\ rm.last_reset_date = NoVal
    /\ DOMAIN orders # {}

\* C9: with a risk manager attached, the positions opened through the
\* Executor and not yet closed never outnumber max_open_positions.
CexC9_OpenPositionsWithinCeiling ==
    executor.risk_manager => Cardinality(execOpen) <= rm.max_open_positions

(***************************************************************************)
(* RateLimiter -- src/core/rate_limiter.py                                 *)
(*                                                                         *)
(* Time is counted in ticks.  A timestamp is kept as its age, now - t, so  *)
(* that the clock can run for ever; an age stops growing at the window,    *)
(* because every age >= window is purged and ends every sleep alike.       *)
(* Each caller is a thread: "want" waits for the lock, "grant" holds the   *)
(* lock with a free slot in front of it, "asleep" holds the lock inside    *)
(* time.sleep, "raised" left acquire with an exception.                    *)
(***************************************************************************)
\* self._timestamps = [t for t in self._timestamps if t > cutoff]
Purge(l) == SelectSeq(l.timestamps, LAMBDA a : a < l.window)

\* if len(self._timestamps) >= self.max_requests, with a boundary off by one
ExhaustedOffByOne(l) == Len(l.timestamps) > l.max_requests

\* if len(self._timestamps) >= self.max_requests
Exhausted(l) == Len(l.timestamps) >= l.max_requests

\* a thread calls acquire(weight): the for loop is entered with weight tokens to take
AcquireCall(t, weight) ==
    /\ limiter.pc[t] = "idle"
    /\ limiter.made[t] < MaxAcquires
    /\ limiter' = [limiter EXCEPT !.pc[t] = "want", !.left[t] = weight,
                                  !.weight[t] = weight, !.made[t] = @ + 1]
    /\ UNCHANGED <<ensemble, now, calls, cbVars, exVars>>

\* with self._lock: purge, then the test of the bucket
AcquireEnter(t) ==
    /\ limiter.pc[t] = "want"
    /\ limiter.lock = 0
    /\ LET p == [limiter EXCEPT !.timestamps = Purge(limiter)]
       IN  IF Exhausted(p)
           THEN IF p.timestamps = <<>>
                THEN \* oldest = self._timestamps[0] raises IndexError
                     limiter' = [p EXCEPT !.pc[t] = "raised"]
                ELSE limiter' = [p EXCEPT !.pc[t] = "asleep", !.lock = t]
           ELSE limiter' = [p EXCEPT !.pc[t] = "grant", !.lock = t]
    /\ UNCHANGED <<ensemble, now, calls, cbVars, exVars>>

\* time.sleep((oldest + window) - now + 0.01) has elapsed: purge again with the new time
AcquireWake(t) ==
    /\ limiter.pc[t] = "asleep"
    /\ limiter.timestamps[1] >= limiter.window
    /\ limiter' = [limiter EXCEPT !.timestamps = Purge(limiter), !.pc[t] = "grant"]
    /\ UNCHANGED <<ensemble, now, calls, cbVars, exVars>>

\* self._timestamps.append(time.monotonic()); the lock is released; next token or return
AcquireGrant(t) ==
    /\ limiter.pc[t] = "grant"
    /\ limiter' = [limiter EXCEPT !.timestamps = Append(@, 0),
                                  !.recent = Append(@, 0),
                                  !.lock = 0,
                                  !.left[t] = @ - 1,
                                  !.pc[t] = IF limiter.left[t] = 1 THEN "idle" ELSE "want"]
    /\ UNCHANGED <<ensemble, now, calls, cbVars, exVars>>

\* one tick of time.monotonic()
LimTick ==
    /\ limiter' = [limiter EXCEPT
                     !.timestamps = [i \in DOMAIN @ |-> Min(@[i] + 1, limiter.window)],
                     !.recent = SelectSeq([i \in DOMAIN @ |-> @[i] + 1],
                                          LAMBDA a : a < limiter.window)]
    /\ UNCHANGED <<ensemble, now, calls, cbVars, exVars>>

InitLimiter ==
    /\ now = 0
    /\ cb = CircuitBreakerInit
    /\ cbLast = NoCall
    /\ tripLog = {}
    /\ calls = 0
    /\ executor = [mode |-> "paper", portfolio |-> FALSE, exchange_client |-> FALSE,
                   risk_manager |-> FALSE, circuit_breaker |-> FALSE]
    /\ orders = <<>>
    /\ portfolio = PortfolioInit
    /\ rm = RiskManagerInit
    /\ exchange = [book |-> <<>>, min_cost |-> NoVal]
    /\ last = [op |-> "none", signal |-> "none", symbol |-> ALL, result |-> "NONE",
               by |-> "none", cid |-> NoCid]
    /\ execOpen = {}
    /\ \E max_requests \in {1, 2, 3} :
          limiter = RateLimiterInit(max_requests, SafetyMarginPct, WindowTicks)
    /\ ensemble = NoEnsemble

NextLimiter ==
    \/ \E t \in Threads, weight \in 1..MaxWeight : AcquireCall(t, weight)
    \/ \E t \in Threads : AcquireEnter(t)
    \/ \E t \in Threads : AcquireWake(t)
    \/ \E t \in Threads : AcquireGrant(t)
    \/ LimTick

SpecLimiter == InitLimiter /\ [][NextLimiter]_vars

\* time passes, and a thread that can run a step of acquire runs it
FairSpecLimiter ==
    /\ SpecLimiter
    /\ WF_vars(LimTick)
    /\ \A t \in Threads : /\ WF_vars(AcquireEnter(t))
                          /\ WF_vars(AcquireWake(t))
                          /\ WF_vars(AcquireGrant(t))

\* C13: at every moment the grants of the last window are at most
\* int(max_requests x safety_margin), and the limiter's own list holds exactly
\* these grants: none is lost and none is given over the capacity.
ThmC13_GrantsWithinCapacity ==
    /\ Len(limiter.recent) <= limiter.max_requests
    /\ SelectSeq(limiter.timestamps, LAMBDA a : a < limiter.window) = limiter.recent

\* two callers at a full bucket: one sleeps with the lock, the other waits for it
WitC13_TwoCallersAtFullBucket ==
    /\ limiter.max_requests >= 1
    /\ Len(limiter.recent) = limiter.max_requests
    /\ \E t, u \in Threads : /\ t # u
                             /\ limiter.pc[t] = "asleep"
                             /\ limiter.pc[u] = "want"

\* C14: every acquire call, whatever its weight and whatever the other callers
\* do, eventually returns.
CexC14_EveryAcquireReturns ==
    \A t \in Threads : (limiter.pc[t] # "idle") ~> (limiter.pc[t] = "idle")

(***************************************************************************)
(* The RiskManager on its own: evaluate_trade, register_trade_open,        *)
(* register_trade_close and get_status called in any order while time      *)
(* passes.  `last' holds the decision returned by the last evaluate_trade  *)
(* with the gates that failed at that call, and the history of the         *)
(* current UTC day: its date, the equity it started with and the sum of    *)
(* the pnl registered during it.                                           *)
(***************************************************************************)
MaxRiskCalls == 4
MaxRiskNow == 1680

InitRisk ==
    /\ now = 0
    /\ calls = 0
    /\ cb = CircuitBreakerInit
    /\ cbLast = NoCall
    /\ tripLog = {}
    /\ executor = [mode |-> "paper", portfolio |-> FALSE, exchange_client |-> FALSE,
                   risk_manager |-> TRUE, circuit_breaker |-> FALSE]
    /\ orders = <<>>
    /\ portfolio = PortfolioInit
    /\ exchange = [book |-> <<>>, min_cost |-> NoVal]
    /\ execOpen = {}
    /\ limiter = NoLimiter
    /\ ensemble = NoEnsemble
    /\ \E max_open_positions \in {1, 2} :
          rm = [RiskManagerInit EXCEPT !.max_open_positions = max_open_positions]
    /\ last = [op |-> "none", approved |-> FALSE, reason |-> "none", position_size |-> 0,
               price |-> 0, equity |-> 0, fails |-> {}, kelly |-> NoVal,
               day |-> 0, day_pnl |-> 0, day_start |-> RiskManagerInit.initial_equity]

\* a call of evaluate_trade; `fails' is every gate that fails on the state the
\* daily-reset check leaves, whatever the order the gates are tested in
RiskEvaluate(prices, atrs, spreads) ==
    /\ calls < MaxRiskCalls
    /\ \E price \in prices, atr_value \in atrs, spread_bps \in spreads :
         LET d == EvaluateTrade(rm, "BTC/USDT", price, atr_value, spread_bps, now)
             r == CheckDailyReset(rm, now)
             fails ==
               {g \in {"daily_loss"} :
                   /\ r.daily_pnl < 0
                   /\ r.daily_starting_equity > 0
                   /\ Abs(r.daily_pnl) * 100
                          >= r.max_daily_loss_pct * r.daily_starting_equity}
               \cup {g \in {"drawdown"} :
                   /\ r.peak_equity > 0
                   /\ (r.peak_equity - r.current_equity) * 100
                          >= r.max_total_drawdown_pct * r.peak_equity}
               \cup {g \in {"max_positions"} : r.open_positions >= r.max_open_positions}
               \cup {g \in {"cooldown"} :
                   /\ r.last_loss_time # NoVal
                   /\ now < r.last_loss_time + r.cooldown_minutes}
               \cup {g \in {"atr"} : price <= 0 \/ atr_value * 1000 < r.min_atr_e3 * price}
               \cup {g \in {"spread"} :
                   spread_bps # NoVal /\ spread_bps > r.spread_guard_bps}
         IN /\ rm' = d.rm
            /\ last' = [last EXCEPT !.op = "evaluate_trade",
                                    !.approved = d.approved,
                                    !.reason = d.reason,
                                    !.position_size = d.position_size,
                                    !.price = price,
                                    !.equity = d.rm.current_equity,
                                    !.fails = fails]
    /\ calls' = calls + 1
    /\ UNCHANGED <<ensemble, limiter, now, cbVars, executor, orders, portfolio, exchange, execOpen>>

\* a call of register_trade_open
RiskOpen ==
    /\ calls < MaxRiskCalls
    /\ rm' = RegisterTradeOpen(rm)
    /\ last' = [last EXCEPT !.op = "register_trade_open"]
    /\ calls' = calls + 1
    /\ UNCHANGED <<ensemble, limiter, now, cbVars, executor, orders, portfolio, exchange, execOpen>>

\* a call of register_trade_close(pnl)
RiskClose(pnls, max_calls) ==
    /\ calls < max_calls
    /\ \E pnl \in pnls :
         /\ rm' = RegisterTradeClose(rm, pnl, now)
         /\ last' = [last EXCEPT !.op = "register_trade_close", !.day_pnl = @ + pnl]
    /\ calls' = calls + 1
    /\ UNCHANGED <<ensemble, limiter, now, cbVars, executor, orders, portfolio, exchange, execOpen>>

\* a call of get_status: the Kelly fraction it reports
RiskGetStatus ==
    /\ last' = [last EXCEPT !.op = "get_status", !.kelly = ComputeKellyFraction(rm)]
    /\ UNCHANGED <<ensemble, limiter, now, calls, cbVars, executor, orders, portfolio, rm, exchange,
                   execOpen>>

\* time passes; at midnight UTC a new day starts with the equity of that moment
RiskTick ==
    /\ \E d \in {240, MinutesPerDay} :
         /\ now + d <= MaxRiskNow
         /\ now' = now + d
         /\ last' = IF (now + d) \div MinutesPerDay # last.day
                    THEN [last EXCEPT !.op = "tick",
                                      !.day = (now + d) \div MinutesPerDay,
                                      !.day_pnl = 0,
                                      !.day_start = rm.current_equity]
                    ELSE [last EXCEPT !.op = "tick"]
    /\ UNCHANGED <<ensemble, limiter, calls, cbVars, executor, orders, portfolio, rm, exchange,
                   execOpen>>

NextRisk ==
    \/ RiskEvaluate({10000}, {10, 50, 100}, {NoVal, 20})
    \/ RiskOpen
    \/ RiskClose({-100000, -20000, 30000}, MaxRiskCalls)
    \/ RiskGetStatus
    \/ RiskTick

SpecRisk == InitRisk /\ [][NextRisk]_vars

\* C15: evaluate_trade rejects with the reason of the first failing gate in
\* the order daily loss, drawdown, open positions, cooldown, ATR, spread, and
\* gives a size only when no gate fails.
ThmC15_FirstFailingGateWins ==
    last.op = "evaluate_trade" =>
        LET order == <<"daily_loss", "drawdown", "max_positions", "cooldown", "atr", "spread">>
            first == CHOOSE i \in 1..Len(order) :
                        /\ order[i] \in last.fails
                        /\ \A j \in 1..(i - 1) : order[j] \notin last.fails
        IN IF last.fails # {}
           THEN ~last.approved /\ last.reason = order[first] /\ last.position_size = 0
           ELSE last.approved \/ last.reason = "size"

\* the spread is too wide and the ATR too low at once: the ATR is the reason
WitC15_AtrBeforeSpread ==
    /\ last.op = "evaluate_trade"
    /\ {"atr", "spread"} \subseteq last.fails
    /\ last.reason = "atr"

\* C16: with the pnl registered during the current UTC day at or below
\* minus max_daily_loss_pct of the day's starting equity, evaluate_trade approves nothing.
CexC16_DailyLossRejectsUntilNextDay ==
    ( /\ last.op = "evaluate_trade"
      /\ last.day_pnl < 0
      /\ (-last.day_pnl) * 100 >= rm.max_daily_loss_pct * last.day_start )
    => ~last.approved

\* C17: an approved decision has a positive size worth at most 50% of the
\* current equity; a rejected decision has size 0.
ThmC17_ApprovedSizeWithinHalfEquity ==
    last.op = "evaluate_trade" =>
        IF last.approved
        THEN /\ last.position_size > 0
             /\ last.position_size * last.price <= (last.equity \div 2) * 1000
        ELSE last.position_size = 0

\* an approval whose size is the 50% ceiling itself, the risk-based size being larger
WitC17_ApprovedAtTheCeiling ==
    /\ last.op = "evaluate_trade"
    /\ last.approved
    /\ last.position_size > 0
    /\ (last.position_size + 1) * last.price > (last.equity \div 2) * 1000

(***************************************************************************)
(* The Kelly fraction: a RiskManager that has registered SeedTrades closed *)
(* trades (wins, losses and break-even trades in any proportion), then     *)
(* registers more of them and reports its status.                          *)
(***************************************************************************)
SeedTrades == 9
MaxKellyCalls == 3

\* register_trade_close called for every pnl of h in turn
RECURSIVE AfterCloses(_, _)
AfterCloses(r, h) ==
    IF h = <<>> THEN r ELSE AfterCloses(RegisterTradeClose(r, h[1], 0), Tail(h))

InitKelly ==
    /\ now = 0
    /\ calls = 0
    /\ cb = CircuitBreakerInit
    /\ cbLast = NoCall
    /\ tripLog = {}
    /\ executor = [mode |-> "paper", portfolio |-> FALSE, exchange_client |-> FALSE,
                   risk_manager |-> TRUE, circuit_breaker |-> FALSE]
    /\ orders = <<>>
    /\ portfolio = PortfolioInit
    /\ exchange = [book |-> <<>>, min_cost |-> NoVal]
    /\ execOpen = {}
    /\ limiter = NoLimiter
    /\ ensemble = NoEnsemble
    /\ \E kelly_lookback \in {10, 50}, nw \in 0..SeedTrades, nl \in 0..SeedTrades :
          /\ nw + nl <= SeedTrades
          /\ rm = AfterCloses([RiskManagerInit EXCEPT !.kelly_lookback = kelly_lookback],
                              [i \in 1..SeedTrades |-> IF i <= nw THEN 2
                                                       ELSE IF i <= nw + nl THEN -1
                                                       ELSE 0])
    /\ last = [op |-> "none", approved |-> FALSE, reason |-> "none", position_size |-> 0,
               price |-> 0, equity |-> 0, fails |-> {}, kelly |-> NoVal,
               day |-> 0, day_pnl |-> 0, day_start |-> RiskManagerInit.initial_equity]

NextKelly ==
    \/ RiskClose({-1, 0, 2}, MaxKellyCalls)
    \/ RiskGetStatus

SpecKelly == InitKelly /\ [][NextKelly]_vars

\* C18 as stated: the Kelly fraction is None when the considered history has
\* fewer than 10 trades, or only wins, or only losses, and otherwise a
\* number in [0, 2 x risk_per_trade].
CexC18_NoneOnlyWhenAllWinsOrAllLosses ==
    last.op = "get_status" =>
        LET recent == LastN(rm.trade_history, rm.kelly_lookback)
            n == Len(recent)
            nw == Len(SelectSeq(recent, LAMBDA x : x > 0))
            nl == Len(SelectSeq(recent, LAMBDA x : x < 0))
        IN IF n < 10 \/ nw = n \/ nl = n
           THEN last.kelly = NoVal
           ELSE 0 <= last.kelly /\ last.kelly <= 2 * rm.risk_per_trade_bps * 100

\* C18: the Kelly fraction is None when the considered history has fewer
\* than 10 trades, or no trade with pnl > 0, or no trade with pnl < 0, and
\* otherwise a number in [0, 2 x risk_per_trade].
ThmC18_NoneWithoutWinOrWithoutLoss ==
    last.op = "get_status" =>
        LET recent == LastN(rm.trade_history, rm.kelly_lookback)
            n == Len(recent)
            nw == Len(SelectSeq(recent, LAMBDA x : x > 0))
            nl == Len(SelectSeq(recent, LAMBDA x : x < 0))
        IN IF n < 10 \/ nw = 0 \/ nl = 0
           THEN last.kelly = NoVal
           ELSE 0 <= last.kelly /\ last.kelly <= 2 * rm.risk_per_trade_bps * 100

\* a history longer than the lookback, with wins and losses: the fraction is a number
WitC18_FractionOverTheLookback ==
    /\ last.op = "get_status"
    /\ Len(rm.trade_history) > rm.kelly_lookback
    /\ last.kelly # NoVal
    /\ last.kelly > 0

\* C19: in live mode an order has been sent to the exchange only after
\* reconcile_on_startup has queried the exchange's open orders.
CexC19_NoOrderBeforeStartupQuery ==
    \A cid \in DOMAIN orders :
        (executor.mode = "live" /\ orders[cid].creates >= 1) => executor.startup_reconciled

\* C20: when execute_signal returns a CLOSED result for a symbol, in either
\* mode, the ledger holds no position for that symbol any more.
CexC20_ClosedLeavesNoPosition ==
    (last.op = "execute_signal" /\ last.result = "CLOSED")
        => ~HasPosition(portfolio, last.symbol)

(***************************************************************************)
(* The Executor at its trading desk: a simulation session with a ledger,   *)
(* a risk manager and a circuit breaker, a live session whose ledger       *)
(* already holds a position, and the two mis-configured Executors (a       *)
(* simulation without a ledger, a live session without an exchange client) *)
(***************************************************************************)
MaxTradeCalls == 3
MaxTradeNow == 60

TradeEnv ==
    [ inits |-> { Construction(Config("paper", TRUE, FALSE, TRUE, TRUE), 2, NoVal,
                               PortfolioInit),
                  Construction(Config("paper", FALSE, FALSE, TRUE, TRUE), 2, NoVal,
                               PortfolioInit),
                  Construction(Config("live", TRUE, TRUE, TRUE, TRUE), 2, NoVal,
                               SeededPortfolio),
                  Construction(Config("live", TRUE, FALSE, TRUE, TRUE), 2, NoVal,
                               SeededPortfolio) },
      symbols |-> Symbols,
      opens |-> {"OPEN_LONG", "OPEN_SHORT"},
      closes |-> {"CLOSE_LONG", "CLOSE_SHORT"},
      prices |-> {10000},
      atrs |-> {NoVal, 50},
      strategies |-> {"trend_ema"},
      uuids |-> {1},
      rich |-> FALSE,
      rich_close |-> FALSE,
      cancel_answers |-> {<<"ok">>, <<"error">>},
      ticks |-> {60},
      max_now |-> MaxTradeNow,
      max_calls |-> MaxTradeCalls ]

NextTrade ==
    \/ ExecTick(TradeEnv)
    \/ ExecuteHold(TradeEnv)
    \/ ExecuteOpen(TradeEnv)
    \/ ExecuteClose(TradeEnv)
    \/ CancelAllOpenOrders(TradeEnv)

SpecTrade == InitExecutor(TradeEnv) /\ [][NextTrade]_vars

\* C21: the ledger holds one position per position opened and not yet
\* closed; an open that reaches the ledger for a symbol that already has a
\* position, or a long the cash does not cover, returns ERROR with the
\* ledger as it was, the order in Error and no open trade registered with
\* the risk manager; every other open that reaches the ledger is Filled.
ThmC21_RefusedOpenLeavesLedger ==
    /\ [](Cardinality({sym \in Symbols : HasPosition(portfolio, sym)})
             = portfolio.next_position_id - 1 - Len(portfolio.trade_history))
    /\ [][ ( /\ executor.mode = "paper" /\ executor.portfolio
             /\ calls' = calls + 1
             /\ last'.op = "execute_signal"
             /\ last'.signal \in {"OPEN_LONG", "OPEN_SHORT"}
             /\ last'.result # "REJECTED" )
           => LET o == orders'[last'.cid]
                  fill_price == ApplySlippage(portfolio, o.price, "BUY")
                  notional == Notional(o.qty, fill_price)
                  total_cost == notional + CalculateFees(portfolio, notional)
              IN IF \/ HasPosition(portfolio, last'.symbol)
                    \/ (last'.signal = "OPEN_LONG" /\ total_cost > portfolio.cash)
                 THEN /\ last'.result = "ERROR"
                      /\ portfolio' = portfolio
                      /\ o.status = "ERROR"
                      /\ rm'.open_positions = rm.open_positions
                 ELSE /\ last'.result = "FILLED"
                      /\ HasPosition(portfolio', last'.symbol) ]_vars

\* a second open on a symbol the ledger holds has been refused
WitC21_SecondOpenRefused ==
    /\ executor.mode = "paper" /\ executor.portfolio
    /\ last.op = "execute_signal"
    /\ last.signal \in {"OPEN_LONG", "OPEN_SHORT"}
    /\ last.result = "ERROR"
    /\ HasPosition(portfolio, last.symbol)
    /\ orders[last.cid].status = "ERROR"

ThmC26_PaperOpenEndsTerminal ==
    [][ ( /\ executor.mode = "paper"
          /\ calls' = calls + 1
          /\ last'.op = "execute_signal"
          /\ last'.signal \in {"OPEN_LONG", "OPEN_SHORT"}
          /\ last'.result # "REJECTED" )
        => LET o == orders'[last'.cid]
               sym == last'.symbol
           IN /\ o.status \in {"FILLED", "ERROR"}
              /\ last'.result = o.status
              /\ (o.status = "FILLED") <=> (portfolio' # portfolio)
              /\ o.status = "FILLED" =>
                    /\ executor.portfolio
                    /\ ~HasPosition(portfolio, sym) /\ HasPosition(portfolio', sym)
                    /\ portfolio'.positions[sym].size = o.qty
                    /\ o.filled_qty = o.qty
                    /\ o.avg_fill_price = portfolio'.positions[sym].entry_price
                    /\ o.fees = CalculateFees(portfolio, Notional(o.qty, o.avg_fill_price))
                    /\ rm'.open_positions = rm.open_positions + 1
              /\ o.status = "ERROR" =>
                    /\ o.filled_qty = 0
                    /\ rm'.open_positions = rm.open_positions ]_vars

\* a simulated short has been filled at the ledger's price, below the signal's
WitC26_PaperShortFilled ==
    /\ executor.mode = "paper"
    /\ last.op = "execute_signal"
    /\ last.signal = "OPEN_SHORT"
    /\ last.result = "FILLED"
    /\ orders[last.cid].status = "FILLED"
    /\ orders[last.cid].filled_qty = orders[last.cid].qty
    /\ orders[last.cid].avg_fill_price < orders[last.cid].price
    /\ orders[last.cid].fees > 0
    /\ rm.open_positions >= 1

\* C25: an Executor in live mode without an exchange client, or in
\* simulation mode without a ledger, answers every open signal that passed
\* the breaker and the risk manager, and every close signal, with an ERROR
\* result, and the order created for it is in status Error
CexC25_MisconfiguredAlwaysReturnsError ==
    [][(/\ last'.op = "execute_signal"
        /\ calls' = calls + 1
        /\ last'.signal \in {"OPEN_LONG", "OPEN_SHORT", "CLOSE_LONG", "CLOSE_SHORT"}
        /\ last'.result # "REJECTED"
        /\ \/ executor.mode = "live" /\ ~executor.exchange_client
           \/ executor.mode = "paper" /\ ~executor.portfolio) =>
         /\ last'.result = "ERROR"
         /\ \A c \in DOMAIN orders' \ DOMAIN orders : orders'[c].status = "ERROR"]_vars

\* C27: when create_order returns in live mode, the order is Filled for a
\* response status closed, Partial for partially_filled and Submitted for
\* open, and its exchange_order_id is the id of the response
CexC27_ResponseStatusMapsDirectly ==
    [][ ( /\ executor.mode = "live"
          /\ calls' = calls + 1
          /\ last'.op = "execute_signal"
          /\ last'.signal \in {"OPEN_LONG", "OPEN_SHORT"}
          /\ last'.cid # NoCid
          /\ ~orders'[last'.cid].reconciled
          /\ Len(exchange'.book) = Len(exchange.book) + 1 )
        => LET o == orders'[last'.cid]
               response == exchange'.book[Len(exchange'.book)]
           IN /\ o.exchange_order_id = response.id
              /\ response.status = "closed" => o.status = "FILLED"
              /\ response.status = "partially_filled" => o.status = "PARTIAL"
              /\ response.status = "open" => o.status = "SUBMITTED" ]_vars

(***************************************************************************)
(* The circuit breaker under the configurations its constructor accepts     *)
(***************************************************************************)
\* CircuitBreaker(consecutive_loss_limit, consecutive_cooldown_minutes): the
\* constructor stores the values it is given, unchecked
InitConfigured ==
    /\ \E limit \in {1, 3}, minutes \in {0, 30} :
         cb = [CircuitBreakerInit EXCEPT !.consecutive_loss_limit = limit,
                                         !.consecutive_cooldown_minutes = minutes]
    /\ now = 0
    /\ cbLast = NoCall
    /\ tripLog = {}
    /\ calls = 0
    /\ executor = [mode |-> "paper", portfolio |-> FALSE, exchange_client |-> FALSE,
                   risk_manager |-> FALSE, circuit_breaker |-> TRUE]
    /\ orders = <<>>
    /\ portfolio = PortfolioInit
    /\ rm = RiskManagerInit
    /\ exchange = [book |-> <<>>, min_cost |-> NoVal]
    /\ last = [op |-> "none", signal |-> "none", symbol |-> ALL, result |-> "NONE",
               by |-> "none", cid |-> NoCid]
    /\ execOpen = {}
    /\ limiter = NoLimiter
    /\ ensemble = NoEnsemble

SpecConfigured == InitConfigured /\ [][NextLoss]_vars

\* C28: every trip ever appended to the trip list, of any kind and under
\* every configuration, expires after it was triggered
CexC28_EveryTripExpiresLater ==
    \A trip \in tripLog : trip.expires_at > trip.triggered_at

(***************************************************************************)
(* Cancelling orders on the exchange                                        *)
(***************************************************************************)
MaxCancelCalls == 3
MaxCancelNow == 15

CancelEnv ==
    [ inits |-> { Construction(Config("live", TRUE, TRUE, TRUE, TRUE), 2, NoVal,
                               PortfolioInit) },
      symbols |-> Symbols,
      opens |-> {"OPEN_LONG"},
      closes |-> {"CLOSE_LONG"},
      prices |-> {10000},
      atrs |-> {100},
      strategies |-> {"trend_ema"},
      uuids |-> {1, 2},
      rich |-> FALSE,
      rich_close |-> FALSE,
      cancel_answers |-> {<<"ok">>, <<"not_found">>, <<"error">>, <<"network">>,
                          <<"network", "ok">>, <<"network", "network", "ok">>,
                          <<"network", "error">>},
      cancel_retries |-> 0..CancelMaxRetries,
      ticks |-> {15},
      max_now |-> MaxCancelNow,
      max_calls |-> MaxCancelCalls ]

NextCancel ==
    \/ ExecTick(CancelEnv)
    \/ ExecuteOpen(CancelEnv)
    \/ CancelAllOpenOrders(CancelEnv)
    \/ CancelOrderCall(CancelEnv)

SpecCancel == InitExecutor(CancelEnv) /\ [][NextCancel]_vars

\* C23: a live sweep calls cancel_order for every order the exchange listed,
\* goes on after a cancel that raised, and returns the number of orders whose
\* cancel came back: the first answer that is not a network error, within
\* the allowed attempts, was a success or OrderNotFound
ThmC23_SweepCountsReturnedCancels ==
    [][(last'.op = "cancel_all_open_orders" /\ calls' = calls + 1) =>
         LET symbol == last'.symbol
             all == {i \in 1..Len(exchange.book) :
                       /\ exchange.book[i].listed
                       /\ (symbol = ALL \/ exchange.book[i].symbol = symbol)}
             ids == last'.listed
             a == last'.answers
             At(id, k) == a[id][Min(k, Len(a[id]))]
             Succeeds(id) == \E k \in 1..CancelMaxRetries :
                                /\ At(id, k) \in {"ok", "not_found"}
                                /\ \A j \in 1..(k - 1) : At(id, j) = "network"
         IN /\ ids \in {{}, all}
            /\ DOMAIN last'.done = ids
            /\ \A id \in ids : last'.done[id].calls >= 1
            /\ last'.result = Cardinality({id \in ids : Succeeds(id)})
            /\ \A id \in ids :
                  (Succeeds(id) /\ last'.done[id].status = "canceled")
                     => exchange'.book[id].status = "canceled"
            /\ \A id \in ids : ~Succeeds(id) => exchange'.book[id] = exchange.book[id]
            /\ orders' = orders]_vars

\* two orders were listed, the cancel of the first raised, the second was
\* already settled, and the sweep returned 1
WitC23_SweepWentOnAfterFailure ==
    /\ last.op = "cancel_all_open_orders"
    /\ last.listed = {1, 2}
    /\ last.done[1].kind = "raised"
    /\ last.done[2].status = "not_found"
    /\ last.result = 1

\* C24: cancel_order calls the exchange at most max_retries times, returns
\* at the first success, calls again only after a network error, having
\* slept 2^attempt seconds, and raises the network error of the last
\* allowed attempt
ThmC24_CancelRetriesOnlyNetworkErrors ==
    [][(last'.op = "cancel_order" /\ calls' = calls + 1) =>
         LET d == last'.done
             a == last'.answers
             n == last'.max_retries
             At(k) == a[Min(k, Len(a))]
         IN /\ d.calls <= n
            /\ \A j \in 1..(d.calls - 1) : At(j) = "network"
            /\ d.waited = IF d.calls = 0 THEN 0 ELSE 2 ^ d.calls - 2
            /\ (d.calls >= 1 /\ At(d.calls) = "ok")
                  => d.kind = "returned" /\ d.status = "canceled"
            /\ (d.calls >= 1 /\ At(d.calls) = "network")
                  => d.calls = n /\ d.kind = "raised" /\ d.status = "network"
            /\ (d.calls >= 1 /\ At(d.calls) = "error") => d.kind = "raised"
            /\ (n >= 1) => d.calls >= 1]_vars

\* a cancel that met two network errors, slept 2 and 4 seconds, and went
\* through at the third call
WitC24_ThirdAttemptWentThrough ==
    /\ last.op = "cancel_order"
    /\ last.max_retries = 3
    /\ last.done.calls = 3
    /\ last.done.waited = 6
    /\ last.done.kind = "returned"

(***************************************************************************)
(* Ensemble: the regime-aware aggregation of the strategies' signals        *)
(***************************************************************************)
MaxVoters == 3

\* the weight of a vote in tenths: DEFAULT_AFFINITY[regime] looked up with
\* the name _normalize_strategy_name makes of the strategy's name (suffix
\* Live dropped, CamelCase to snake_case), 0.3 for a name it does not hold
RegimeWeight(regime, name) ==
    LET norm_name == IF name = "SupertrendLive" THEN "supertrend" ELSE name
    IN IF regime = "TRENDING_STRONG"
       THEN CASE norm_name = "trend_ema" -> 10
              [] norm_name = "supertrend" -> 10
              [] norm_name = "mean_reversion_bb" -> 1
              [] OTHER -> 3
       ELSE CASE norm_name = "trend_ema" -> 0
              [] norm_name = "supertrend" -> 0
              [] norm_name = "mean_reversion_bb" -> 2
              [] OTHER -> 3

\* a conflict test that lets a side win with exactly twice the other's score
OverwhelmsOrEqual(score, other) == score >= other * 2

\* the conflict test of aggregate: one side's score is more than twice the other's
Overwhelms(score, other) == score > other * 2

\* Ensemble.aggregate(signals, regime_state).  Scores are in thousandths;
\* the confidence of the result is score_for / votes_for (0 without voters);
\* winner is best_action when the method returns ("NONE" for None)
Aggregate(e, signals, regime) ==
    LET votes == [i \in 1..Len(signals) |->
                    [strategy_name |-> signals[i][1], action |-> signals[i][2],
                     weighted_score |-> signals[i][3] * RegimeWeight(regime, signals[i][1])]]
        actions == {votes[i].action : i \in 1..Len(votes)} \ {"HOLD"}
        Voters(a) == SelectSeq(votes, LAMBDA v : v.action = a)
        Scores(vs) == [i \in 1..Len(vs) |-> vs[i].weighted_score]
        Total(a) == SeqSum(Scores(Voters(a)))
        First(a) == CHOOSE i \in 1..Len(votes) :
                       /\ votes[i].action = a
                       /\ \A j \in 1..(i - 1) : votes[j].action # a
        \* the loop keeps the first action whose total beats every earlier one
        leaders == {a \in actions : /\ Total(a) > 0
                                    /\ \A b \in actions : Total(b) <= Total(a)}
        top == IF leaders = {} THEN "NONE"
               ELSE CHOOSE a \in leaders : \A b \in leaders : First(a) <= First(b)
        has_buy == "OPEN_LONG" \in actions
        has_sell == actions \cap {"OPEN_SHORT", "CLOSE_LONG"} # {}
        buy_score == Total("OPEN_LONG")
        sell_score == Total("OPEN_SHORT") + Total("CLOSE_LONG")
        conflict == has_buy /\ has_sell
        best_action == IF ~conflict THEN top
                       ELSE IF Overwhelms(buy_score, sell_score) THEN "OPEN_LONG"
                       ELSE IF "CLOSE_LONG" \in actions THEN "CLOSE_LONG"
                       ELSE "OPEN_SHORT"
        best_voters == IF best_action = "NONE" THEN <<>> ELSE Voters(best_action)
        votes_for == Len(best_voters)
        score_for == SeqSum(Scores(best_voters))
        consensus_met == /\ votes_for >= e.consensus_threshold
                         /\ ~(score_for < e.min_weighted_confidence * votes_for)
    IN IF actions = {}
       THEN [action |-> "HOLD", score_for |-> 0, votes_for |-> 0, votes_total |-> 0,
             consensus_met |-> FALSE, regime |-> regime, winner |-> "NONE"]
       ELSE IF /\ conflict
               /\ ~Overwhelms(buy_score, sell_score)
               /\ ~Overwhelms(sell_score, buy_score)
       THEN [action |-> "HOLD", score_for |-> 0, votes_for |-> 0,
             votes_total |-> Cardinality(actions), consensus_met |-> FALSE,
             regime |-> regime, winner |-> "NONE"]
       ELSE [action |-> IF consensus_met THEN best_action ELSE "HOLD",
             score_for |-> score_for, votes_for |-> votes_for,
             votes_total |-> Cardinality({i \in 1..Len(votes) : votes[i].action # "HOLD"}),
             consensus_met |-> consensus_met, regime |-> regime, winner |-> best_action]

\* the caller of the ensemble collects the signal of one more strategy for
\* the cycle; what the last cycle returned is behind it
CastVote ==
    /\ Len(ensemble.signals) < MaxVoters
    /\ \E name \in {"trend_ema", "SupertrendLive", "mean_reversion_bb", "custom"},
          action \in {"OPEN_LONG", "OPEN_SHORT", "CLOSE_LONG", "CLOSE_SHORT", "HOLD"},
          confidence \in {50, 80} :
         /\ \A i \in 1..Len(ensemble.signals) : ensemble.signals[i][1] # name
         /\ action = "HOLD" => confidence = 50
         /\ ensemble' = [ensemble EXCEPT !.signals = Append(@, <<name, action, confidence>>)]
    /\ last' = [op |-> "none", signal |-> "none", symbol |-> ALL, result |-> "NONE",
                by |-> "none", cid |-> NoCid]
    /\ UNCHANGED <<limiter, now, calls, cbVars, executor, orders, portfolio, rm, exchange,
                   execOpen>>

\* Ensemble.aggregate(signals, regime_state) on the signals collected
AggregateCall ==
    /\ \E regime \in {"TRENDING_STRONG", "RANDOM_WALK"} :
         last' = [op |-> "aggregate", signals |-> ensemble.signals,
                  result |-> Aggregate(ensemble, ensemble.signals, regime)]
    /\ UNCHANGED <<ensemble, limiter, now, calls, cbVars, executor, orders, portfolio, rm,
                   exchange, execOpen>>

\* Ensemble(consensus_threshold, min_weighted_confidence) after construction
InitEnsemble ==
    /\ \E config \in {<<2, 300>>, <<2, 0>>, <<1, 0>>} :
         ensemble = EnsembleInit(config[1], config[2])
    /\ now = 0
    /\ cb = CircuitBreakerInit
    /\ cbLast = NoCall
    /\ tripLog = {}
    /\ calls = 0
    /\ executor = [mode |-> "paper", portfolio |-> FALSE, exchange_client |-> FALSE,
                   risk_manager |-> FALSE, circuit_breaker |-> FALSE]
    /\ orders = <<>>
    /\ portfolio = PortfolioInit
    /\ rm = RiskManagerInit
    /\ exchange = [book |-> <<>>, min_cost |-> NoVal]
    /\ last = [op |-> "none", signal |-> "none", symbol |-> ALL, result |-> "NONE",
               by |-> "none", cid |-> NoCid]
    /\ execOpen = {}
    /\ limiter = NoLimiter

NextEnsemble == CastVote \/ AggregateCall

SpecEnsemble == InitEnsemble /\ [][NextEnsemble]_vars

\* C29: the result is a non-Hold action only when consensus_met is true;
\* consensus_met is true exactly when the winning action (the one with the
\* highest total score, the conflict rule applied) has at least
\* consensus_threshold voters whose mean weighted score is at least
\* min_weighted_confidence; with threshold 2 and a sufficient mean,
\* OpenLong/OpenLong/Hold gives OpenLong with votes_for = 2, and
\* OpenLong/Hold/Hold gives Hold; a result downgraded to Hold still reports
\* the winning action's vote count and score and the number of votes cast
CexC29_ConsensusIsThresholdAndMean ==
    last.op = "aggregate" =>
        LET sigs == last.signals
            r == last.result
            e == ensemble
            cast == {sigs[i][2] : i \in 1..Len(sigs)} \ {"HOLD"}
            N(a) == Cardinality({i \in 1..Len(sigs) : sigs[i][2] = a})
            T(a) == SeqSum([k \in 1..N(a) |->
                              LET g == SelectSeq(sigs, LAMBDA h : h[2] = a)[k]
                              IN g[3] * RegimeWeight(r.regime, g[1])])
            buy == T("OPEN_LONG")
            sell == T("OPEN_SHORT") + T("CLOSE_LONG")
            conflict == /\ "OPEN_LONG" \in cast
                        /\ cast \cap {"OPEN_SHORT", "CLOSE_LONG"} # {}
            winners == IF ~conflict
                       THEN {a \in cast : \A b \in cast : T(b) <= T(a)}
                       ELSE IF buy > 2 * sell THEN {"OPEN_LONG"}
                       ELSE IF sell > 2 * buy
                       THEN (IF "CLOSE_LONG" \in cast THEN {"CLOSE_LONG"}
                             ELSE {"OPEN_SHORT"})
                       ELSE {}
            Enough(a) == /\ N(a) >= e.consensus_threshold
                         /\ T(a) >= e.min_weighted_confidence * N(a)
            shape == [a \in {"OPEN_LONG", "HOLD"} |-> N(a)]
        IN /\ r.action # "HOLD" => r.consensus_met
           /\ r.consensus_met <=> (\E a \in winners : Enough(a))
           /\ r.consensus_met => r.action \in winners
           /\ ( /\ e.consensus_threshold = 2 /\ Len(sigs) = 3
                /\ shape["OPEN_LONG"] = 2 /\ shape["HOLD"] = 1
                /\ Enough("OPEN_LONG") )
                => r.action = "OPEN_LONG" /\ r.votes_for = 2
           /\ ( /\ e.consensus_threshold = 2 /\ Len(sigs) = 3
                /\ shape["OPEN_LONG"] = 1 /\ shape["HOLD"] = 2 )
                => r.action = "HOLD"
           /\ (winners # {} /\ ~r.consensus_met)
                => /\ r.action = "HOLD"
                   /\ r.votes_total = Len(sigs) - N("HOLD")
                   /\ \E a \in winners : r.votes_for = N(a) /\ r.score_for = T(a)

\* C30: with OpenLong votes and sell-family votes both present, OpenLong is
\* the winning action when the buy total is more than twice the sell total;
\* when the sell total is more than twice the buy total the winning action
\* is CloseLong if any CloseLong vote exists and OpenShort otherwise; in
\* every other case the result is Hold with consensus_met false
ThmC30_ConflictNeedsDoubleScore ==
    last.op = "aggregate" =>
        LET sigs == last.signals
            r == last.result
            Idx(as) == {i \in 1..Len(sigs) : sigs[i][2] \in as}
            Total(as) == SeqSum([k \in 1..Len(SelectSeq(sigs, LAMBDA g : g[2] \in as)) |->
                                 LET g == SelectSeq(sigs, LAMBDA h : h[2] \in as)[k]
                                 IN g[3] * RegimeWeight(r.regime, g[1])])
            buy == Total({"OPEN_LONG"})
            sell == Total({"OPEN_SHORT", "CLOSE_LONG"})
            Wins(a) == /\ r.winner = a
                       /\ r.votes_for = Cardinality(Idx({a}))
                       /\ r.action = IF r.consensus_met THEN a ELSE "HOLD"
        IN (Idx({"OPEN_LONG"}) # {} /\ Idx({"OPEN_SHORT", "CLOSE_LONG"}) # {}) =>
              IF buy > 2 * sell THEN Wins("OPEN_LONG")
              ELSE IF sell > 2 * buy
              THEN IF Idx({"CLOSE_LONG"}) # {} THEN Wins("CLOSE_LONG")
                   ELSE Wins("OPEN_SHORT")
              ELSE r.action = "HOLD" /\ ~r.consensus_met

\* OpenLong, OpenShort and CloseLong were all voted, the sell side had more
\* than twice the buy score, and the ensemble returned CloseLong
WitC30_SellSideWonWithCloseLong ==
    /\ last.op = "aggregate"
    /\ {last.signals[i][2] : i \in 1..Len(last.signals)}
          = {"OPEN_LONG", "OPEN_SHORT", "CLOSE_LONG"}
    /\ last.result.action = "CLOSE_LONG"
    /\ last.result.consensus_met

\* C31: every signal aggregate returns has votes_for <= votes_total, and
\* votes_total is the number of non-Hold votes of the input on every return
\* path: 0 when every vote is Hold, all non-Hold votes when a conflict
\* forces Hold
CexC31_VotesTotalCountsNonHoldVotes ==
    last.op = "aggregate" =>
        /\ last.result.votes_for <= last.result.votes_total
        /\ last.result.votes_total
              = Cardinality({i \in 1..Len(last.signals) : last.signals[i][2] # "HOLD"})

\* ---------------------------------------------------------------------------
\* Market regime classification (core/regime_detector.py)
\* ---------------------------------------------------------------------------
\* compute_hurst returns a value clipped to [0, 1] and compute_adx a value in
\* [0, 100]; here the Hurst exponent is in hundredths, the ADX in whole points,
\* the allocation weight in percent and the confidence in 1/600ths, the
\* common denominator of the four confidence formulas.
ConfidenceOne == 600

\* classify_regime with the second rule tried before the first
ClassifyRegimeWeakFirst(hurst, adx) ==
    IF hurst > 55 /\ adx > 20
    THEN [regime |-> "TRENDING_WEAK", allocation_weight |-> 50,
          confidence |-> Min(ConfidenceOne, 30 * (hurst - 55) + 30 * (adx - 20))]
    ELSE IF hurst > 60 /\ adx > 25
    THEN [regime |-> "TRENDING_STRONG", allocation_weight |-> 80,
          confidence |-> Min(ConfidenceOne, 20 * (hurst - 60) + 12 * (adx - 25))]
    ELSE IF hurst < 45 /\ adx < 20
    THEN [regime |-> "MEAN_REVERTING", allocation_weight |-> 80,
          confidence |-> Min(ConfidenceOne, 20 * (45 - hurst) + 15 * (20 - adx))]
    ELSE [regime |-> "RANDOM_WALK", allocation_weight |-> 100,
          confidence |-> IF ConfidenceOne - 60 * Abs(hurst - 50) > 0
                         THEN ConfidenceOne - 60 * Abs(hurst - 50) ELSE 0]

\* classify_regime: the thresholds in order, the confidence of each branch and
\* REGIME_ALLOCATION[regime]
ClassifyRegime(hurst, adx) ==
    IF hurst > 60 /\ adx > 25
    THEN [regime |-> "TRENDING_STRONG", allocation_weight |-> 80,
          confidence |-> Min(ConfidenceOne, 20 * (hurst - 60) + 12 * (adx - 25))]
    ELSE IF hurst > 55 /\ adx > 20
    THEN [regime |-> "TRENDING_WEAK", allocation_weight |-> 50,
          confidence |-> Min(ConfidenceOne, 30 * (hurst - 55) + 30 * (adx - 20))]
    ELSE IF hurst < 45 /\ adx < 20
    THEN [regime |-> "MEAN_REVERTING", allocation_weight |-> 80,
          confidence |-> Min(ConfidenceOne, 20 * (45 - hurst) + 15 * (20 - adx))]
    ELSE [regime |-> "RANDOM_WALK", allocation_weight |-> 100,
          confidence |-> IF ConfidenceOne - 60 * Abs(hurst - 50) > 0
                         THEN ConfidenceOne - 60 * Abs(hurst - 50) ELSE 0]

\* One classify_regime(df) call; the frame enters through the two metrics
\* computed from it.
ClassifyRegimeCall ==
    /\ \E hurst \in {h \in 0..100 : h % 5 = 0 \/ h \in {44, 46, 54, 56, 59, 61}},
          adx \in {0, 10, 19, 20, 21, 25, 26, 30, 50, 100} :
         last' = [op |-> "classify_regime", hurst |-> hurst, adx |-> adx,
                  state |-> ClassifyRegime(hurst, adx)]
    /\ UNCHANGED <<ensemble, limiter, now, calls, cbVars, executor, orders, portfolio, rm,
                   exchange, execOpen>>

InitRegime ==
    /\ ensemble = NoEnsemble
    /\ now = 0
    /\ cb = CircuitBreakerInit
    /\ cbLast = NoCall
    /\ tripLog = {}
    /\ calls = 0
    /\ executor = [mode |-> "paper", portfolio |-> FALSE, exchange_client |-> FALSE,
                   risk_manager |-> FALSE, circuit_breaker |-> FALSE]
    /\ orders = <<>>
    /\ portfolio = PortfolioInit
    /\ rm = RiskManagerInit
    /\ exchange = [book |-> <<>>, min_cost |-> NoVal]
    /\ last = [op |-> "none", signal |-> "none", symbol |-> ALL, result |-> "NONE",
               by |-> "none", cid |-> NoCid]
    /\ execOpen = {}
    /\ limiter = NoLimiter

SpecRegime == InitRegime /\ [][ClassifyRegimeCall]_vars

\* C32: classify_regime applies its four rules in order, first match wins:
\* Hurst > 0.60 and ADX > 25 is TrendingStrong, else Hurst > 0.55 and ADX > 20
\* is TrendingWeak, else Hurst < 0.45 and ADX < 20 is MeanReverting, else
\* RandomWalk; the state carries that regime's allocation weight (0.80, 0.50,
\* 0.80, 1.00) and a confidence within [0, 1].
ThmC32_RegimeRulesInOrder ==
    last.op = "classify_regime" =>
        LET h == last.hurst
            a == last.adx
            s == last.state
        IN /\ (h > 60 /\ a > 25) => s.regime = "TRENDING_STRONG"
           /\ (~(h > 60 /\ a > 25) /\ h > 55 /\ a > 20) => s.regime = "TRENDING_WEAK"
           /\ (~(h > 55 /\ a > 20) /\ h < 45 /\ a < 20) => s.regime = "MEAN_REVERTING"
           /\ (~(h > 55 /\ a > 20) /\ ~(h < 45 /\ a < 20)) => s.regime = "RANDOM_WALK"
           /\ s.allocation_weight = CASE s.regime = "TRENDING_STRONG" -> 80
                                       [] s.regime = "TRENDING_WEAK" -> 50
                                       [] s.regime = "MEAN_REVERTING" -> 80
                                       [] OTHER -> 100
           /\ s.confidence >= 0
           /\ s.confidence <= ConfidenceOne

\* both trend rules match and the first one won, at full confidence
WitC32_StrongWinsOverWeak ==
    /\ last.op = "classify_regime"
    /\ last.hurst = 75
    /\ last.adx = 50
    /\ last.state.regime = "TRENDING_STRONG"
    /\ last.state.allocation_weight = 80
    /\ last.state.confidence = ConfidenceOne

\* ---------------------------------------------------------------------------
\* Position sizing on its own: compute_position_size called on managers built
\* with risk_per_trade 0.005 or 0.01, between closes that move the equity
\* ---------------------------------------------------------------------------
MaxSizingCalls == 3

\* a call of compute_position_size(price, atr_value)
ComputePositionSizeCall ==
    /\ \E price \in {3000000, 5000000}, atr_value \in {0, 20000, 50000} :
         last' = [op |-> "compute_position_size", price |-> price, atr_value |-> atr_value,
                  equity |-> rm.current_equity, risk_bps |-> rm.risk_per_trade_bps,
                  day_pnl |-> last.day_pnl,
                  kelly |-> ComputeKellyFraction(rm),
                  layer |-> AtrLayer(rm, price, atr_value),
                  position_units |-> ComputePositionSize(rm, price, atr_value)]
    /\ UNCHANGED <<ensemble, limiter, now, calls, cbVars, executor, orders, portfolio, rm,
                   exchange, execOpen>>

InitSizing ==
    /\ now = 0
    /\ calls = 0
    /\ cb = CircuitBreakerInit
    /\ cbLast = NoCall
    /\ tripLog = {}
    /\ executor = [mode |-> "paper", portfolio |-> FALSE, exchange_client |-> FALSE,
                   risk_manager |-> TRUE, circuit_breaker |-> FALSE]
    /\ orders = <<>>
    /\ portfolio = PortfolioInit
    /\ exchange = [book |-> <<>>, min_cost |-> NoVal]
    /\ execOpen = {}
    /\ limiter = NoLimiter
    /\ ensemble = NoEnsemble
    /\ \E risk_bps \in {50, 100} :
          rm = [RiskManagerInit EXCEPT !.risk_per_trade_bps = risk_bps]
    /\ last = [op |-> "none", day_pnl |-> 0]

NextSizing ==
    \/ ComputePositionSizeCall
    \/ RiskClose({-100000, 50000}, MaxSizingCalls)

SpecSizing == InitSizing /\ [][NextSizing]_vars

\* C33 as stated: with equity 10,000, risk_per_trade 0.01, price 50,000 and
\* ATR 500 the base units are about 0.0133 (13 thousandths).
CexC33_ExampleGivesThirteenThousandths ==
    (/\ last.op = "compute_position_size"
     /\ last.equity = 1000000
     /\ last.risk_bps = 100
     /\ last.price = 5000000
     /\ last.atr_value = 50000)
        => last.layer.position_units = 13

\* C33, amended: the ATR layer gives stop = price - atr x 1.5, take-profit =
\* price + 2 x atr x 1.5 and, for a positive ATR, units = equity x
\* risk_per_trade / (atr x 1.5), which the call returns when there is no
\* Kelly fraction; in the example the stop is 49,250, the take-profit 51,500
\* and the base units about 0.1333.
ThmC33_AtrLayerSizing ==
    last.op = "compute_position_size" =>
        /\ last.layer.stop_price_x2 = 2 * last.price - 3 * last.atr_value
        /\ last.layer.tp_price_x2 = 2 * last.price + 2 * 3 * last.atr_value
        /\ last.atr_value > 0 =>
              last.layer.position_units
                 = (((last.equity * last.risk_bps) \div 10000) * 2000) \div (3 * last.atr_value)
        /\ last.kelly = NoVal => last.position_units = last.layer.position_units
        /\ (/\ last.equity = 1000000
            /\ last.risk_bps = 100
            /\ last.price = 5000000
            /\ last.atr_value = 50000)
              => /\ last.layer.stop_price_x2 = 2 * 4925000
                 /\ last.layer.tp_price_x2 = 2 * 5150000
                 /\ last.layer.position_units = 133

\* the example of the claim, sized by a manager that has no trade history
WitC33_ExampleSized ==
    /\ last.op = "compute_position_size"
    /\ last.equity = 1000000
    /\ last.risk_bps = 100
    /\ last.price = 5000000
    /\ last.atr_value = 50000
    /\ last.kelly = NoVal
    /\ last.position_units = 133

\* C34 as stated: after a losing close registered at time t, evaluate_trade
\* approves no trade before t + cooldown_minutes, whatever closes are
\* registered in between.  The manager is built at time 0 with an empty
\* history, so before cooldown_minutes every loss of the history was
\* registered less than cooldown_minutes ago.
CexC34_CooldownOutlastsLaterCloses ==
    (/\ last.op = "evaluate_trade"
     /\ now < rm.cooldown_minutes
     /\ \E i \in 1..Len(rm.trade_history) : rm.trade_history[i] < 0)
        => ~last.approved

\* C35: an active Asset or Flash trip on symbol A never makes check() reject
\* another symbol B: when the only active trips are symbol-scoped trips on
\* other symbols and no trip condition holds for B, check(B, ...) returns
\* allowed = true.
ThmC35_TripOnOtherSymbolDoesNotBlock ==
    [][(/\ cbLast'.op = "check"
        /\ calls' = calls + 1
        /\ \E i \in 1..Len(cb.trips) : IsActive(cb.trips[i], now)
        /\ \A i \in 1..Len(cb.trips) :
              IsActive(cb.trips[i], now)
                 => /\ cb.trips[i].breaker_type \in {"asset", "flash"}
                    /\ cb.trips[i].symbol # ALL
                    /\ cb.trips[i].symbol # cbLast'.symbol
        /\ LET c1 == RecordPrice(cb, cbLast'.symbol, cbLast'.price, now)
           IN /\ CheckAssetDrop(c1, cbLast'.symbol, cbLast'.price, now).ok
              /\ CheckFlashCrash(c1, cbLast'.symbol, cbLast'.price, now).ok
        /\ ~cbLast'.kill)
          => /\ cbLast'.allowed
             /\ cbLast'.why = "ok"
             /\ Len(cb'.trips) = Len(cb.trips)]_vars

\* a check allowed for one symbol while an asset or flash trip on another
\* symbol is running
WitC35_AllowedBesideTrippedSymbol ==
    /\ cbLast.op = "check"
    /\ cbLast.allowed
    /\ \E i \in 1..Len(cb.trips) :
         /\ cb.trips[i].breaker_type \in {"asset", "flash"}
         /\ cb.trips[i].symbol \notin {ALL, cbLast.symbol}
         /\ cb.trips[i].triggered_at <= cbLast.at
         /\ IsActive(cb.trips[i], cbLast.at)

\* C36: a single check() call appends at most one BreakerTrip, and while a
\* trip that blocks symbol S (a trip on S or a portfolio-wide trip) is active,
\* check(S, ...) is refused and appends no new trip, although it still
\* records the price tick.
ThmC36_CheckAppendsAtMostOneTrip ==
    [][(cbLast'.op = "check" /\ calls' = calls + 1)
          => LET S == cbLast'.symbol
                 history == cb'.price_history[S]
             IN /\ Len(cb'.trips) <= Len(cb.trips) + 1
                /\ SubSeq(cb'.trips, 1, Len(cb.trips)) = cb.trips
                /\ Cardinality(tripLog' \ tripLog) <= 1
                /\ Len(history) >= 1
                /\ history[Len(history)] = <<now, cbLast'.price>>
                /\ BlockedByTrip(cb, S, now)
                      => /\ ~cbLast'.allowed
                         /\ cb'.trips = cb.trips
                         /\ tripLog' = tripLog]_vars

\* a check in which both the asset drop and the kill switch hold, and which
\* left the asset trip alone
WitC36_FirstRefusalOnly ==
    /\ cbLast.op = "check"
    /\ cbLast.why = "asset"
    /\ cbLast.drop
    /\ cbLast.kill
    /\ Len(cb.trips) = 1

\* C37: reset_daily(v) removes exactly the expired trips from the trip list
\* and sets the start-of-day portfolio value to v; it leaves every still-active
\* trip (an active portfolio kill or consecutive-loss pause included), the
\* consecutive-loss counter and the price history unchanged.
ThmC37_ResetDailyPurgesOnlyExpired ==
    [][(cbLast'.op = "reset_daily" /\ calls' = calls + 1)
          => /\ cb'.trips = SelectSeq(cb.trips, LAMBDA trip : now < trip.expires_at)
             /\ \A i \in 1..Len(cb.trips) :
                   now < cb.trips[i].expires_at
                      => \E j \in 1..Len(cb'.trips) : cb'.trips[j] = cb.trips[i]
             /\ \A j \in 1..Len(cb'.trips) : now < cb'.trips[j].expires_at
             /\ cb'.sod_portfolio_value \in CBSodValues
             /\ cb'.consecutive_losses = cb.consecutive_losses
             /\ cb'.price_history = cb.price_history
             /\ \A symbol \in Symbols :
                   BlockedByTrip(cb', symbol, now) = BlockedByTrip(cb, symbol, now)]_vars

\* a reset that kept a running portfolio kill and took the new start-of-day
\* value
WitC37_RunningKillKept ==
    /\ cbLast.op = "reset_daily"
    /\ cb.sod_portfolio_value \in CBSodValues
    /\ \E i \in 1..Len(cb.trips) :
         /\ cb.trips[i].breaker_type = "portfolio"
         /\ cb.trips[i].triggered_at <= cbLast.at
         /\ cbLast.at < cb.trips[i].expires_at

CexC39_PendingLeavesOutOrphaned ==
    last.op = "get_status" =>
        /\ last.total_orders = Cardinality(DOMAIN orders)
        /\ last.filled = Cardinality({cid \in DOMAIN orders : orders[cid].status = "FILLED"})
        /\ last.errors = Cardinality({cid \in DOMAIN orders : orders[cid].status = "ERROR"})
        /\ last.result
              = Cardinality({cid \in DOMAIN orders :
                               orders[cid].status \in {"PENDING", "SUBMITTED", "PARTIAL"}})

\* ---------------------------------------------------------------------------
\* evaluate_trade on a manager with a trade history long enough for the Kelly
\* overlay: the seeded histories of InitKelly, further closes, evaluations and
\* time
\* ---------------------------------------------------------------------------
NextKellyTrade ==
    \/ RiskClose({-1, 0, 2}, MaxKellyCalls)
    \/ RiskEvaluate({10000}, {50}, {NoVal})
    \/ RiskTick

SpecKellyTrade == InitKelly /\ [][NextKellyTrade]_vars

\* C40: while the rolling trade history yields a Half-Kelly fraction of
\* exactly 0, evaluate_trade rejects every trade, with the zero position size
\* as the reason when every earlier gate passes, on every call until a further
\* register_trade_close changes the history.
ThmC40_ZeroKellyRejectsEveryTrade ==
    (last.op = "evaluate_trade" /\ ComputeKellyFraction(rm) = 0)
        => /\ ~last.approved
           /\ last.position_size = 0
           /\ last.fails = {} => last.reason = "size"

\* ten or more trades with wins and losses and no edge: every gate passes
\* and the trade is refused for its size
WitC40_RefusedForZeroSize ==
    /\ last.op = "evaluate_trade"
    /\ ComputeKellyFraction(rm) = 0
    /\ Len(rm.trade_history) >= KellyMinTrades
    /\ last.fails = {}
    /\ last.reason = "size"
    /\ ~last.approved

====
